---- MODULE Spec2Model ----
(***************************************************************************)
(* Song Association Game: the room server (server.js, the revision that    *)
(* serves HTTP and WebSocket on one port), the WebSocket sync client       *)
(* (services/websocketSync.ts) and the room-facing part of App.tsx.        *)
(*                                                                         *)
(* One connection per device.  Messages travel in FIFO channels in both    *)
(* directions; the server handles one message to completion per step.      *)
(***************************************************************************)
EXTENDS Integers, Sequences, FiniteSets, TLC

\* ------------------------------------------------------------------ bounds
Devices == {"d1", "d2", "d3"}
Names == {"Al", "Bo"}
\* the name used where one name is enough
Names1 == "Al"
WORD_POOL == <<"w1", "w2", "w3">>

\* generateId() is called at most MaxIds times
MaxIds == 3
\* number of round words of a game (10 in the source, scaled down)
ROUND_TOTAL == 2
\* history never grows beyond ROUND_TOTAL + Overshoot entries in a run
Overshoot == 1
\* a device acts only while fewer than MaxOut of its messages are unhandled
MaxOut == 1
\* capacity of the channel to a client
MaxIn == 2
\* peers send while fewer than MaxFlight connections have a message unhandled
MaxFlight == 1
\* the clock stops at MaxTime
MaxTime == 1
\* seconds of a countdown that are counted one by one
MaxSeconds == 1
\* the longest pool pickWords is called with
MaxPool == 3

DEFAULT_TIMER == 20
NullId == 0
NoRoom == "none"

VARIABLES
    rooms,          \* server: Map roomId -> room state
    nextId,         \* server: number of ids generateId() has returned
    now,            \* Date.now()
    currentRoomId,  \* server, per connection: closure variable currentRoomId
    connDeviceId,   \* server, per connection: closure variable deviceId
    ws,             \* per device: state of its WebSocket
    toServer,       \* per device: messages sent and not yet handled
    toClient,       \* per device: messages sent by the server, not yet received
    view,           \* per device: App state copied from room-state messages
    myPlayer,       \* per device: App state myPlayer (id) or NullId
    isGameMaster,   \* per device: App state isGameMaster
    playerNameInput,\* per device: App state playerNameInput is non-empty
    roundComplete,  \* per device: GameRound state roundComplete
    reshuffleUsed,  \* per device: GameRound state reshuffleUsed
    timeLeft,       \* per device: GameRound state timeLeft, in seconds
    reshuffled,     \* history, per device: a reshuffle of the device has
                    \* changed the word of the round its GameRound shows
    reconnectAttempts, \* per device: WebSocketClient.reconnectAttempts
    retryDelay,     \* per device: the delay in ms of the pending setTimeout of
                    \* attemptReconnect, or 0 when none is pending
    connectionError,\* per device: 'connection-error' has been emitted
    failedAttempts, \* history, per device: the calls of connect() that have
                    \* failed since the connection was last open
    payload,        \* verifyLyricsContainWord: the argument { song, artist, word }
    backend,        \* verifyLyricsContainWord: the cached lyrics and what the
                    \* lookup of each artist variant comes to
    verdict,        \* verifyLyricsContainWord: the result, or Pending
    pickPool,       \* pickWords: the argument pool
    picked,         \* pickWords: the result, or Undefined before the call
    sockets,        \* WebSocketClient singleton: readyState of every WebSocket
                    \* it has created, in order of creation
    thisWs,         \* WebSocketClient singleton: this.ws, an index of sockets,
                    \* or 0 for null
    timers,         \* WebSocketClient singleton: pending setTimeout callbacks
                    \* of attemptReconnect
    stored,         \* roomSync: the room kept in localStorage, <<>> when there is none
    created,        \* roomSync: the number of ids createId() has returned
    lyricsCache,    \* lyrics cache: the Map in memory, its entries in insertion order
    localCache,     \* lyrics cache: per key the timestamp of its localStorage item, or Absent
    returned,       \* lyrics cache: the entry getCachedLyrics returned last, or <<>>
    handled,        \* history: the message or close the server handled last
    lostId          \* history, per device: the id of the player the device
                    \* had when its connection closed, until it is added again

vars == <<rooms, nextId, now, currentRoomId, connDeviceId, ws, toServer,
          toClient, view, myPlayer, isGameMaster, playerNameInput,
          roundComplete, reshuffleUsed, timeLeft, reshuffled, pickPool, picked, payload, backend, verdict,
          sockets, thisWs, timers,
          reconnectAttempts, retryDelay, connectionError, failedAttempts,
          stored, created,
          lyricsCache, localCache, returned,
          handled, lostId>>

serverVars == <<rooms, nextId, currentRoomId, connDeviceId, handled, lostId>>
\* the reconnection state of WebSocketClient
retryVars == <<reconnectAttempts, retryDelay, connectionError, failedAttempts>>
\* the state of the functions that are called on their own
pickVars == <<pickPool, picked>>
lyricVars == <<payload, backend, verdict>>
sockVars == <<sockets, thisWs, timers>>
storeVars == <<stored, created>>
cacheVars == <<lyricsCache, localCache, returned>>
libVars == <<pickVars, lyricVars, sockVars, storeVars, cacheVars>>
clientVars == <<view, myPlayer, isGameMaster, playerNameInput, roundComplete,
                reshuffleUsed, timeLeft, reshuffled>>

\* ----------------------------------------------------------------- helpers
\* index of the entry room.players.find(p => p.deviceId === dev) returns, or 0
FindIndex(players, dev) ==
    IF \E i \in 1..Len(players) : players[i].deviceId = dev
    THEN CHOOSE i \in 1..Len(players) :
            /\ players[i].deviceId = dev
            /\ \A j \in 1..(i - 1) : players[j].deviceId # dev
    ELSE 0

\* id of room.players.find(p => p.deviceId === dev), or NullId
FindByDevice(players, dev) ==
    IF FindIndex(players, dev) = 0 THEN NullId
    ELSE players[FindIndex(players, dev)].id

HasId(players, id) == \E i \in 1..Len(players) : players[i].id = id

\* room.players.filter(p => p.deviceId !== dev)
FilterOutDevice(players, dev) ==
    LET keep(p) == p.deviceId # dev IN SelectSeq(players, keep)

DefaultRoom(rid) ==
    [roomId |-> rid, players |-> <<>>, phase |-> "lobby",
     roundDuration |-> DEFAULT_TIMER, roundWords |-> <<>>, currentRound |-> 0,
     playersWithScores |-> <<>>, history |-> <<>>, gameMasterId |-> NullId,
     lastUpdated |-> now]

RoomStateMsg(room) == [type |-> "room-state", state |-> room]

\* clientRooms: the WeakMap is written exactly where currentRoomId is
clientRooms(cur) == cur

\* client.send(JSON.stringify(message)); a message equal to the one queued
\* last is delivered together with it (receiving the same state twice in a
\* row leaves the client where the first copy put it)
Enq(q, msg) == IF q # <<>> /\ q[Len(q)] = msg THEN q ELSE Append(q, msg)

\* the room of the receiving connection is not compared
BroadcastAnyRoom(chan, cur, rid, msg, excl, direct, extra) ==
    [c \in Devices |->
        LET a == IF c # excl /\ ws[c] = "open" /\ clientRooms(cur)[c] # NoRoom
                 THEN Enq(chan[c], msg) ELSE chan[c]
        IN IF c = direct /\ extra THEN Enq(a, msg) ELSE a]

\* broadcastToRoom(roomId, message, excludeWs) followed by `extra` direct
\* ws.send calls to connection `direct`
Broadcast(chan, cur, rid, msg, excl, direct, extra) ==
    [c \in Devices |->
        LET a == IF c # excl /\ ws[c] = "open" /\ clientRooms(cur)[c] = rid
                 THEN Enq(chan[c], msg) ELSE chan[c]
        IN IF c = direct /\ extra THEN Enq(a, msg) ELSE a]

Fits(chan) == \A c \in Devices : Len(chan[c]) <= MaxIn

\* Object.assign(room, updates)
Assign(room, updates) ==
    [f \in DOMAIN room |-> IF f \in DOMAIN updates THEN updates[f] ELSE room[f]]

\* ------------------------------------------------------------------ server
Receivable(d, t) ==
    /\ ws[d] = "open"
    /\ toServer[d] # <<>>
    /\ Head(toServer[d]).type = t

\* what `handled` keeps of message m received on connection d
Summary(d, m) ==
    [conn |-> d, type |-> m.type,
     deviceId |-> IF "deviceId" \in DOMAIN m THEN m.deviceId ELSE "nobody",
     playerId |-> IF "playerId" \in DOMAIN m THEN m.playerId ELSE NullId]

\* `handled` before the server has handled anything
Nothing ==
    [conn |-> "nobody", type |-> "none", deviceId |-> "nobody",
     playerId |-> NullId]

Consume(d) ==
    /\ toServer' = [toServer EXCEPT ![d] = Tail(@)]
    /\ handled' = Summary(d, Head(toServer[d]))

\* rooms.get(currentRoomId) of the handlers that start with
\* `if (!currentRoomId) break; ... if (!room) break;`
HasRoom(d) == currentRoomId[d] # NoRoom /\ currentRoomId[d] \in DOMAIN rooms

\* the message is dropped by the two leading `break`s
ServerNoRoom(d) ==
    /\ ws[d] = "open"
    /\ toServer[d] # <<>>
    /\ Head(toServer[d]).type \in {"remove-player", "update-room",
            "player-submission", "round-timeout", "round-skip"}
    /\ ~HasRoom(d)
    /\ Consume(d)
    /\ UNCHANGED <<libVars, retryVars, rooms, nextId, currentRoomId, connDeviceId, lostId, now, ws,
                   toClient, clientVars>>

\* the room is created whether it exists or not
ServerJoinRoomAnew(d) ==
    /\ Receivable(d, "join-room")
    /\ LET m == Head(toServer[d])
           rid == m.roomId
           cur == [currentRoomId EXCEPT ![d] = rid]
           rs == [r \in DOMAIN rooms \cup {rid} |->
                    IF r = rid THEN DefaultRoom(rid) ELSE rooms[r]]
           out == Broadcast(toClient, cur, rid, RoomStateMsg(rs[rid]), d, d, TRUE)
       IN /\ Fits(out)
          /\ currentRoomId' = cur
          /\ connDeviceId' = [connDeviceId EXCEPT ![d] = m.deviceId]
          /\ rooms' = rs
          /\ toClient' = out
    /\ Consume(d)
    /\ UNCHANGED <<libVars, retryVars, nextId, lostId, now, ws, clientVars>>

\* case 'join-room'
ServerJoinRoom(d) ==
    /\ Receivable(d, "join-room")
    /\ LET m == Head(toServer[d])
           rid == m.roomId
           cur == [currentRoomId EXCEPT ![d] = rid]
           rs == IF rid \in DOMAIN rooms THEN rooms
                 ELSE [r \in DOMAIN rooms \cup {rid} |->
                         IF r = rid THEN DefaultRoom(rid) ELSE rooms[r]]
           out == Broadcast(toClient, cur, rid, RoomStateMsg(rs[rid]), d, d, TRUE)
       IN /\ Fits(out)
          /\ currentRoomId' = cur
          /\ connDeviceId' = [connDeviceId EXCEPT ![d] = m.deviceId]
          /\ rooms' = rs
          /\ toClient' = out
    /\ Consume(d)
    /\ UNCHANGED <<libVars, retryVars, nextId, lostId, now, ws, clientVars>>

\* a second entry for the device instead of the rename
RenamePushes(players, dev, name) ==
    Append(players, [id |-> players[FindIndex(players, dev)].id, name |-> name,
                     deviceId |-> dev])

\* existingPlayer.name = playerName
Rename(players, dev, name) ==
    [i \in 1..Len(players) |->
        IF i = FindIndex(players, dev)
        THEN [players[i] EXCEPT !.name = name] ELSE players[i]]

\* case 'add-player'
ServerAddPlayer(d) ==
    /\ Receivable(d, "add-player")
    /\ LET m == Head(toServer[d])
           switch == m.roomId # NoRoom /\ m.roomId # currentRoomId[d]
           cur == IF switch THEN [currentRoomId EXCEPT ![d] = m.roomId]
                  ELSE currentRoomId
           dev == IF switch THEN [connDeviceId EXCEPT ![d] = m.deviceId]
                  ELSE connDeviceId
           rs == IF switch /\ m.roomId \notin DOMAIN rooms
                 THEN [r \in DOMAIN rooms \cup {m.roomId} |->
                         IF r = m.roomId THEN DefaultRoom(m.roomId) ELSE rooms[r]]
                 ELSE rooms
           rid == cur[d]
       IN /\ currentRoomId' = cur
          /\ connDeviceId' = dev
          /\ IF rid = NoRoom
             THEN \* Must join a room before adding a player
                  /\ Len(toClient[d]) < MaxIn
                  /\ toClient' = [toClient EXCEPT ![d] = Append(@, [type |-> "error"])]
                  /\ rooms' = rs
                  /\ UNCHANGED <<nextId, lostId>>
             ELSE IF rid \notin DOMAIN rs
             THEN /\ rooms' = rs
                  /\ UNCHANGED <<toClient, nextId, lostId>>
             ELSE LET room == rs[rid]
                      existing == FindByDevice(room.players, m.deviceId) # NullId
                      playerId == nextId + 1
                      players == IF existing
                                 THEN Rename(room.players, m.deviceId, m.playerName)
                                 ELSE Append(room.players,
                                        [id |-> playerId, name |-> m.playerName,
                                         deviceId |-> m.deviceId])
                      gm == IF ~existing /\ room.gameMasterId = NullId
                            THEN playerId ELSE room.gameMasterId
                      room2 == [room EXCEPT !.players = players,
                                            !.gameMasterId = gm,
                                            !.lastUpdated = now]
                      out == Broadcast(toClient, cur, rid, RoomStateMsg(room2),
                                       "nobody", d, TRUE)
                  IN /\ existing \/ nextId < MaxIds
                     /\ Fits(out)
                     /\ nextId' = IF existing THEN nextId ELSE playerId
                     /\ rooms' = [rs EXCEPT ![rid] = room2]
                     /\ toClient' = out
                     /\ lostId' = [lostId EXCEPT ![m.deviceId] = NullId]
    /\ Consume(d)
    /\ UNCHANGED <<libVars, retryVars, now, ws, clientVars>>

\* the role goes to the last remaining player instead of the first
ReassignToLast(gm, players) ==
    IF gm # NullId /\ ~HasId(players, gm)
    THEN IF Len(players) > 0 THEN players[Len(players)].id ELSE NullId
    ELSE gm

\* `if (room.gameMasterId && !room.players.find(...)) room.gameMasterId = ...`
Reassign(gm, players) ==
    IF gm # NullId /\ ~HasId(players, gm)
    THEN IF Len(players) > 0 THEN players[1].id ELSE NullId
    ELSE gm

\* case 'remove-player'
ServerRemovePlayer(d) ==
    /\ Receivable(d, "remove-player")
    /\ HasRoom(d)
    /\ LET m == Head(toServer[d])
           rid == currentRoomId[d]
           room == rooms[rid]
           players == FilterOutDevice(room.players, m.deviceId)
           room2 == [room EXCEPT !.players = players,
                                 !.gameMasterId = Reassign(room.gameMasterId, players),
                                 !.lastUpdated = now]
           out == Broadcast(toClient, currentRoomId, rid, RoomStateMsg(room2),
                            "nobody", d, TRUE)
       IN /\ Fits(out)
          /\ rooms' = [rooms EXCEPT ![rid] = room2]
          /\ toClient' = out
    /\ Consume(d)
    /\ UNCHANGED <<libVars, retryVars, nextId, lostId, now, currentRoomId, connDeviceId, ws,
                   clientVars>>

\* any device with a roster entry passes
IsRosterDevice(room, dev) == FindByDevice(room.players, dev) # NullId

\* `player && player.id === room.gameMasterId`
IsGameMasterDevice(room, dev) ==
    /\ FindByDevice(room.players, dev) # NullId
    /\ FindByDevice(room.players, dev) = room.gameMasterId

\* case 'update-room'
ServerUpdateRoom(d) ==
    /\ Receivable(d, "update-room")
    /\ HasRoom(d)
    /\ LET m == Head(toServer[d])
           rid == currentRoomId[d]
           room == rooms[rid]
           room2 == [Assign(room, m.updates) EXCEPT !.lastUpdated = now]
           out == Broadcast(toClient, currentRoomId, rid, RoomStateMsg(room2),
                            "nobody", d, TRUE)
       IN IF IsGameMasterDevice(room, m.deviceId)
          THEN /\ Fits(out)
               /\ rooms' = [rooms EXCEPT ![rid] = room2]
               /\ toClient' = out
          ELSE UNCHANGED <<rooms, toClient>>
    /\ Consume(d)
    /\ UNCHANGED <<libVars, retryVars, nextId, lostId, now, currentRoomId, connDeviceId, ws,
                   clientVars>>

\* index of room.playersWithScores.find(p => p.id === id), or 0
ScoreIndex(pws, id) ==
    IF \E i \in 1..Len(pws) : pws[i].id = id
    THEN CHOOSE i \in 1..Len(pws) :
            pws[i].id = id /\ \A j \in 1..(i - 1) : pws[j].id # id
    ELSE 0

\* the point goes to the first entry of the score list
AddPointFirst(pws, id, name) ==
    LET seeded == IF ScoreIndex(pws, id) = 0
                  THEN Append(pws, [id |-> id, name |-> name, score |-> 0])
                  ELSE pws
    IN [seeded EXCEPT ![1].score = @ + 1]

\* the score update of an accepted submission
AddPoint(pws, id, name) ==
    LET seeded == IF ScoreIndex(pws, id) = 0
                  THEN Append(pws, [id |-> id, name |-> name, score |-> 0])
                  ELSE pws
    IN [seeded EXCEPT ![ScoreIndex(seeded, id)].score = @ + 1]

\* the round index moves on by two
AdvanceByTwo(room) ==
    [room EXCEPT !.currentRound = @ + 2,
                 !.phase = IF room.currentRound + 2 >= Len(room.roundWords)
                           THEN "leaderboard" ELSE @]

\* the game ends one round late
AdvanceLate(room) ==
    [room EXCEPT !.currentRound = @ + 1,
                 !.phase = IF room.currentRound + 1 > Len(room.roundWords)
                           THEN "leaderboard" ELSE @]

\* room.currentRound += 1; if (room.currentRound >= room.roundWords.length) ...
Advance(room) ==
    [room EXCEPT !.currentRound = @ + 1,
                 !.phase = IF room.currentRound + 1 >= Len(room.roundWords)
                           THEN "leaderboard" ELSE @]

\* every entry is recorded as a success
HistoryEntrySuccess(word, outcome, winnerId, song, artist) ==
    [word |-> word, outcome |-> "success", winnerId |-> winnerId,
     song |-> song, artist |-> artist]

\* the object pushed on room.history; a field left out is Undefined
HistoryEntry(word, outcome, winnerId, song, artist) ==
    [word |-> word, outcome |-> outcome, winnerId |-> winnerId,
     song |-> song, artist |-> artist]

\* a field the entry does not carry
Undefined == "undefined"

\* the playerId of the message is not compared
OwnsAnyPlayer(room, dev, playerId) == FindIndex(room.players, dev) # 0

\* `player && player.id === playerId`
OwnsPlayer(room, dev, playerId) ==
    /\ FindIndex(room.players, dev) # 0
    /\ room.players[FindIndex(room.players, dev)].id = playerId

\* JSON null
Null == "null"

\* what the catch of ws.on('message') sends
CaughtError == [type |-> "error", message |-> "Invalid message format"]

\* JSON.parse(message.toString()) throws, or the message is the JSON text
\* null and data.type throws: the catch answers the sender
ServerCatch(d) ==
    /\ ws[d] = "open"
    /\ toServer[d] # <<>>
    /\ Head(toServer[d]).type \in {"unparsable", "null"}
    /\ Fits([toClient EXCEPT ![d] = Append(@, CaughtError)])
    /\ toClient' = [toClient EXCEPT ![d] = Append(@, CaughtError)]
    /\ Consume(d)
    /\ UNCHANGED <<libVars, retryVars, rooms, nextId, lostId, now, currentRoomId,
                   connDeviceId, ws, clientVars>>

\* case 'player-submission'; when room.history is null room.history.push
\* throws after the score has been written, and the catch answers the sender
ServerPlayerSubmission(d) ==
    /\ Receivable(d, "player-submission")
    /\ HasRoom(d)
    /\ LET m == Head(toServer[d])
           rid == currentRoomId[d]
           room == rooms[rid]
           idx == FindIndex(room.players, m.deviceId)
           thrown == [room EXCEPT
               !.playersWithScores =
                    AddPoint(@, m.playerId, room.players[idx].name)]
           scored == [room EXCEPT
               !.playersWithScores =
                    AddPoint(@, m.playerId, room.players[idx].name),
               !.history = Append(@, HistoryEntry(m.word, "success",
                                        m.playerId, m.song, m.artist))]
           room2 == [Advance(scored) EXCEPT !.lastUpdated = now]
           out == Broadcast(toClient, currentRoomId, rid, RoomStateMsg(room2),
                            "nobody", d, FALSE)
       IN IF OwnsPlayer(room, m.deviceId, m.playerId) /\ room.history = Null
          THEN /\ thrown.playersWithScores[
                      ScoreIndex(thrown.playersWithScores, m.playerId)].score
                        <= ROUND_TOTAL + Overshoot
               /\ Fits([toClient EXCEPT ![d] = Append(@, CaughtError)])
               /\ rooms' = [rooms EXCEPT ![rid] = thrown]
               /\ toClient' = [toClient EXCEPT ![d] = Append(@, CaughtError)]
          ELSE IF OwnsPlayer(room, m.deviceId, m.playerId)
          THEN /\ Len(room.history) < ROUND_TOTAL + Overshoot
               /\ Fits(out)
               /\ rooms' = [rooms EXCEPT ![rid] = room2]
               /\ toClient' = out
          ELSE UNCHANGED <<rooms, toClient>>
    /\ Consume(d)
    /\ UNCHANGED <<libVars, retryVars, nextId, lostId, now, currentRoomId, connDeviceId, ws,
                   clientVars>>

\* the accepted branch shared by case 'round-timeout' and case 'round-skip'
GameMasterOutcome(d, outcome) ==
    /\ HasRoom(d)
    /\ LET m == Head(toServer[d])
           rid == currentRoomId[d]
           room == rooms[rid]
           pushed == [room EXCEPT !.history =
                        Append(@, HistoryEntry(m.word, outcome, Undefined,
                                               Undefined, Undefined))]
           room2 == [Advance(pushed) EXCEPT !.lastUpdated = now]
           out == Broadcast(toClient, currentRoomId, rid, RoomStateMsg(room2),
                            "nobody", d, TRUE)
       IN IF IsGameMasterDevice(room, m.deviceId)
          THEN /\ Len(room.history) < ROUND_TOTAL + Overshoot
               /\ Fits(out)
               /\ rooms' = [rooms EXCEPT ![rid] = room2]
               /\ toClient' = out
          ELSE UNCHANGED <<rooms, toClient>>
    /\ Consume(d)
    /\ UNCHANGED <<libVars, retryVars, nextId, lostId, now, currentRoomId, connDeviceId, ws,
                   clientVars>>

\* case 'round-timeout'
ServerRoundTimeout(d) ==
    /\ Receivable(d, "round-timeout")
    /\ GameMasterOutcome(d, "timeout")

\* case 'round-skip'
ServerRoundSkip(d) ==
    /\ Receivable(d, "round-skip")
    /\ GameMasterOutcome(d, "skipped")

maxReconnectAttempts == 5
reconnectDelay == 1000

\* const delay = this.reconnectDelay * Math.pow(2, this.reconnectAttempts - 1)
Delay(k) == reconnectDelay * 2 ^ (k - 1)

\* one more attempt is made before the client gives up
attemptReconnectPast(d) ==
    IF reconnectAttempts[d] > maxReconnectAttempts
    THEN /\ connectionError' = [connectionError EXCEPT ![d] = TRUE]
         /\ retryDelay' = [retryDelay EXCEPT ![d] = 0]
         /\ UNCHANGED reconnectAttempts
    ELSE /\ reconnectAttempts' = [reconnectAttempts EXCEPT ![d] = @ + 1]
         /\ retryDelay' = [retryDelay EXCEPT ![d] = Delay(reconnectAttempts[d] + 1)]
         /\ UNCHANGED connectionError

\* WebSocketClient.attemptReconnect
attemptReconnect(d) ==
    IF reconnectAttempts[d] >= maxReconnectAttempts
    THEN /\ connectionError' = [connectionError EXCEPT ![d] = TRUE]
         /\ retryDelay' = [retryDelay EXCEPT ![d] = 0]
         /\ UNCHANGED reconnectAttempts
    ELSE /\ reconnectAttempts' = [reconnectAttempts EXCEPT ![d] = @ + 1]
         /\ retryDelay' = [retryDelay EXCEPT ![d] = Delay(reconnectAttempts[d] + 1)]
         /\ UNCHANGED connectionError

\* ws.on('close') on the server and ws.onclose on the client
Close(d) ==
    /\ ws[d] = "open"
    /\ LET rid == currentRoomId[d]
           dev == connDeviceId[d]
           room == rooms[rid]
           players == FilterOutDevice(room.players, dev)
           room2 == [room EXCEPT !.players = players,
                                 !.gameMasterId = Reassign(room.gameMasterId, players),
                                 !.lastUpdated = now]
           out == Broadcast(toClient, currentRoomId, rid, RoomStateMsg(room2),
                            d, d, FALSE)
       IN IF rid # NoRoom /\ dev # NoRoom /\ rid \in DOMAIN rooms
          THEN /\ Fits(out)
               /\ rooms' = [rooms EXCEPT ![rid] = room2]
               /\ toClient' = [out EXCEPT ![d] = <<>>]
               /\ lostId' = [lostId EXCEPT ![d] = FindByDevice(room.players, dev)]
          ELSE /\ rooms' = rooms
               /\ toClient' = [toClient EXCEPT ![d] = <<>>]
               /\ lostId' = [lostId EXCEPT ![d] = NullId]
    /\ ws' = [ws EXCEPT ![d] = "lost"]
    /\ toServer' = [toServer EXCEPT ![d] = <<>>]
    /\ currentRoomId' = [currentRoomId EXCEPT ![d] = NoRoom]
    /\ connDeviceId' = [connDeviceId EXCEPT ![d] = NoRoom]
    /\ handled' = [conn |-> d, type |-> "close", deviceId |-> connDeviceId[d],
                    playerId |-> NullId]
    /\ attemptReconnect(d)
    /\ UNCHANGED <<libVars, failedAttempts, nextId, now, clientVars>>

\* the clock
Tick ==
    /\ now < MaxTime
    /\ now' = now + 1
    /\ UNCHANGED <<libVars, retryVars, serverVars, ws, toServer, toClient, clientVars>>

\* the age in milliseconds a room must exceed to be cleaned up
HOUR == 3600000

\* a room is cleaned up from the very end of its hour on
StaleAtTheHour(room, t) == t - room.lastUpdated >= HOUR

\* now - room.lastUpdated > 3600000
Stale(room, t) == t - room.lastUpdated > HOUR

\* `handled` after a run of the cleanup
Swept ==
    [conn |-> "nobody", type |-> "sweep", deviceId |-> "nobody",
     playerId |-> NullId]

\* setInterval(() => { for (const [roomId, room] of rooms.entries()) ... }):
\* nothing is sent and no connection's room is cleared
Sweep ==
    /\ rooms' = [r \in {x \in DOMAIN rooms : ~Stale(rooms[x], now)} |-> rooms[r]]
    /\ handled' = Swept
    /\ UNCHANGED <<libVars, retryVars, nextId, currentRoomId, connDeviceId, lostId,
                   now, ws, toServer, toClient, clientVars>>

\* ------------------------------------------------------------------ client
\* the room every App instance has in its roomId state
ClientRoom == "R"

InitView ==
    [roomPlayers |-> <<>>, roundDuration |-> DEFAULT_TIMER, phase |-> "lobby",
     roundWords |-> <<>>, currentRound |-> 0, history |-> <<>>,
     gameMasterId |-> NullId, players |-> <<>>]

\* WebSocketClient.send: dropped with a warning unless the socket is open
Send(d, msgs) == IF ws[d] = "open" THEN toServer[d] \o msgs ELSE toServer[d]

\* the messages one user action sends; a device has fewer than MaxOut
\* unhandled messages when its user acts
SendAll(d, msgs) ==
    /\ Len(toServer[d]) < MaxOut
    /\ toServer' = [toServer EXCEPT ![d] = Send(d, msgs)]

JoinRoomMsg(d) == [type |-> "join-room", roomId |-> ClientRoom, deviceId |-> d]

\* const activeWord = roundWords[currentRound] ?? ''
ActiveWord(v) ==
    IF v.currentRound + 1 \in 1..Len(v.roundWords)
    THEN v.roundWords[v.currentRound + 1] ELSE ""

\* the condition under which App renders GameRound
GameRoundShown(v, me) ==
    /\ v.phase = "playing"
    /\ Len(v.roundWords) > 0
    /\ ActiveWord(v) # ""
    /\ me # NullId
    /\ (Len(v.players) > 0 \/ Len(v.roomPlayers) > 0)

\* GameRound is remounted when roundInstanceKey changes and reset when
\* roundIndex, duration or word change
RoundKey(v, me) ==
    IF GameRoundShown(v, me)
    THEN <<v.currentRound, v.roundDuration,
           [i \in 1..Len(v.roomPlayers) |-> v.roomPlayers[i].id], ActiveWord(v)>>
    ELSE <<>>

\* the round a client's GameRound shows, or -1 when it shows none
ShownRound(v, me) == IF GameRoundShown(v, me) THEN v.currentRound ELSE -1

ResetRound(d, v2, me2) ==
    /\ roundComplete' = [roundComplete EXCEPT ![d] =
        IF RoundKey(v2, me2) = RoundKey(view[d], myPlayer[d]) THEN @ ELSE FALSE]
    /\ reshuffleUsed' = [reshuffleUsed EXCEPT ![d] =
        IF RoundKey(v2, me2) = RoundKey(view[d], myPlayer[d]) THEN @ ELSE FALSE]
    /\ timeLeft' = [timeLeft EXCEPT ![d] =
        IF RoundKey(v2, me2) = RoundKey(view[d], myPlayer[d])
        THEN @ ELSE v2.roundDuration]
    /\ reshuffled' = [reshuffled EXCEPT ![d] =
        IF ShownRound(v2, me2) = ShownRound(view[d], myPlayer[d])
        THEN @ ELSE FALSE]

\* every player starts with a point
SeededOne(players) ==
    [i \in 1..Len(players) |->
        [id |-> players[i].id, name |-> players[i].name, score |-> 1]]

\* state.players.map(p => ({ id, name, score: 0 }))
Seeded(players) ==
    [i \in 1..Len(players) |->
        [id |-> players[i].id, name |-> players[i].name, score |-> 0]]

\* the watchRoomState callback of App
ApplyState(st) ==
    [roomPlayers |-> st.players, roundDuration |-> st.roundDuration,
     phase |-> st.phase, roundWords |-> st.roundWords,
     currentRound |-> st.currentRound, history |-> st.history,
     gameMasterId |-> st.gameMasterId,
     players |-> IF st.phase = "lobby" THEN <<>>
                 ELSE IF Len(st.playersWithScores) > 0 THEN st.playersWithScores
                 ELSE Seeded(st.players)]

\* ws.onmessage -> handleMessage -> handleState -> the App callback
Receive(d) ==
    /\ ws[d] = "open"
    /\ toClient[d] # <<>>
    /\ toClient' = [toClient EXCEPT ![d] = Tail(@)]
    /\ LET m == Head(toClient[d])
           mine == FindByDevice(m.state.players, d)
           me2 == IF mine # NullId THEN mine
                  ELSE IF myPlayer[d] # NullId /\ ~playerNameInput[d] THEN NullId
                  ELSE myPlayer[d]
       IN IF m.type = "room-state" /\ m.state.roomId = ClientRoom
          THEN /\ view' = [view EXCEPT ![d] = ApplyState(m.state)]
               /\ myPlayer' = [myPlayer EXCEPT ![d] = me2]
               /\ isGameMaster' = [isGameMaster EXCEPT ![d] =
                    IF mine # NullId THEN m.state.gameMasterId = mine
                    ELSE IF myPlayer[d] # NullId /\ ~playerNameInput[d] THEN FALSE
                    ELSE @]
               /\ ResetRound(d, ApplyState(m.state), me2)
          ELSE UNCHANGED <<view, myPlayer, isGameMaster, roundComplete,
                           reshuffleUsed, timeLeft, reshuffled>>
    /\ UNCHANGED <<libVars, retryVars, serverVars, now, ws, playerNameInput>>

\* the callback alone, without the effects the new state triggers
Deliver(d) ==
    /\ Receive(d)
    /\ UNCHANGED toServer

\* the callback, then the effect that depends on myPlayer: setMyPlayer is
\* called with a new object, or with null for a player that was set, so the
\* effect runs again and watchRoomState sends join-room
DeliverRewatch(d) ==
    /\ Receive(d)
    /\ LET m == Head(toClient[d])
       IN IF /\ m.type = "room-state"
             /\ m.state.roomId = ClientRoom
             /\ \/ FindByDevice(m.state.players, d) # NullId
                \/ myPlayer[d] # NullId /\ ~playerNameInput[d]
          THEN SendAll(d, <<JoinRoomMsg(d)>>)
          ELSE UNCHANGED toServer

\* getWebSocketClient / watchRoomState on mount: connect, then joinRoom.
\* The effect also re-subscribes (a further join-room, answered with one more
\* snapshot of the room) whenever myPlayer or playerNameInput changes; those
\* extra joins change no room field and are left out here.
Connect(d) ==
    /\ ws[d] = "init"
    /\ ws' = [ws EXCEPT ![d] = "open"]
    /\ toServer' = [toServer EXCEPT ![d] = <<JoinRoomMsg(d)>>]
    /\ UNCHANGED <<libVars, retryVars, serverVars, now, toClient, clientVars>>

\* the timer of attemptReconnect fires -> connect -> ws.onopen: a new socket,
\* nothing is sent on it
Reconnect(d) ==
    /\ ws[d] = "lost"
    /\ retryDelay[d] > 0
    /\ ws' = [ws EXCEPT ![d] = "open"]
    /\ reconnectAttempts' = [reconnectAttempts EXCEPT ![d] = 0]
    /\ retryDelay' = [retryDelay EXCEPT ![d] = 0]
    /\ failedAttempts' = [failedAttempts EXCEPT ![d] = 0]
    /\ UNCHANGED <<libVars, connectionError, serverVars, now, toServer,
                   toClient, clientVars>>

\* the timer of attemptReconnect fires -> connect -> ws.onerror, ws.onclose
\* -> attemptReconnect: the server cannot be reached
RetryFails(d) ==
    /\ ws[d] = "lost"
    /\ retryDelay[d] > 0
    /\ failedAttempts' = [failedAttempts EXCEPT ![d] = @ + 1]
    /\ attemptReconnect(d)
    /\ UNCHANGED <<libVars, serverVars, now, ws, toServer, toClient, clientVars>>

\* ------------------------------------------- the WebSocketClient singleton
\* the sockets the singleton of one page creates
MaxSockets == 4

\* the device whose page is followed socket by socket
Page == "d1"

\* isConnected(): this.ws !== null && this.ws.readyState === WebSocket.OPEN
isConnected == thisWs # 0 /\ sockets[thisWs] = "open"

\* what is left unchanged by the steps of the singleton
SocketFrame ==
    UNCHANGED <<pickVars, lyricVars, serverVars, now, ws, toServer, toClient,
                clientVars, failedAttempts, storeVars, cacheVars>>

\* the WebSockets after connect(): this.ws = new WebSocket(WS_URL)
connect(socks) == Append(socks, "connecting")

\* getWebSocketClient(): the first call creates the client and connects
getWebSocketClient(socks) == IF socks = <<>> THEN connect(socks) ELSE socks

\* `const client = getWebSocketClient(); if (!client.isConnected())
\* client.connect()...` of watchRoomState and addPlayerToRoom
ensureConnected ==
    LET socks == getWebSocketClient(sockets)
    IN /\ sockets' = IF isConnected THEN socks ELSE connect(socks)
       /\ thisWs' = Len(sockets')

\* a call of getWebSocketClient() on its own (removePlayerFromRoom,
\* updateRoomState, ...)
GetWebSocketClient ==
    /\ Len(sockets) < MaxSockets
    /\ sockets' = getWebSocketClient(sockets)
    /\ thisWs' = IF sockets = <<>> THEN 1 ELSE thisWs
    /\ UNCHANGED <<timers, reconnectAttempts, retryDelay, connectionError>>
    /\ SocketFrame

\* watchRoomState(roomId, callback); addPlayerToRoom does the same to the
\* sockets
WatchRoomState ==
    /\ Len(sockets) + 2 <= MaxSockets
    /\ ensureConnected
    /\ UNCHANGED <<timers, reconnectAttempts, retryDelay, connectionError>>
    /\ SocketFrame

\* ws.onopen of socket i
SocketOpen(i) ==
    /\ sockets[i] = "connecting"
    /\ sockets' = [sockets EXCEPT ![i] = "open"]
    /\ reconnectAttempts' = [reconnectAttempts EXCEPT ![Page] = 0]
    /\ UNCHANGED <<thisWs, timers, retryDelay, connectionError>>
    /\ SocketFrame

\* ws.onclose of socket i (after ws.onerror when the attempt fails):
\* this.ws = null; this.attemptReconnect()
SocketClose(i) ==
    /\ sockets[i] \in {"connecting", "open"}
    /\ sockets' = [sockets EXCEPT ![i] = "closed"]
    /\ thisWs' = 0
    /\ attemptReconnect(Page)
    /\ timers' = IF reconnectAttempts[Page] >= maxReconnectAttempts
                 THEN timers ELSE timers + 1
    /\ SocketFrame

\* the setTimeout callback of attemptReconnect: this.connect()
TimerFires ==
    /\ timers > 0
    /\ Len(sockets) < MaxSockets
    /\ timers' = timers - 1
    /\ sockets' = connect(sockets)
    /\ thisWs' = Len(sockets')
    /\ UNCHANGED <<reconnectAttempts, retryDelay, connectionError>>
    /\ SocketFrame

\* ---------------------------------------------- the localStorage room store
\* what is left unchanged by the functions of roomSync
StoreFrame ==
    UNCHANGED <<pickVars, lyricVars, sockVars, retryVars, serverVars, now, ws,
                toServer, toClient, clientVars, cacheVars>>

\* getRoomState(roomId) at time t: <<state>>, or <<>> for null; a room older
\* than an hour is removed
getRoomState(st, t) ==
    IF st = <<>> THEN <<>>
    ELSE IF t - st[1].lastUpdated > HOUR THEN <<>>
    ELSE st

\* saveRoomState(state) at time t
saveRoomState(state, t) == <<[state EXCEPT !.lastUpdated = t]>>

\* localStorage after addPlayerToRoom(roomId, playerName, deviceId) at time
\* t, when createId() returns id
addPlayerToRoom(st, playerName, deviceId, id, t) ==
    LET state == getRoomState(st, t)
        newPlayer == [id |-> id, name |-> playerName, deviceId |-> deviceId]
    IN IF state = <<>>
       THEN saveRoomState([DefaultRoom(ClientRoom) EXCEPT
                               !.players = <<newPlayer>>,
                               !.gameMasterId = id], t)
       ELSE IF FindByDevice(state[1].players, deviceId) # NullId
       THEN IF \E i \in 1..Len(state[1].players) :
                  /\ state[1].players[i].deviceId = deviceId
                  /\ state[1].players[i].name # playerName
            THEN saveRoomState([state[1] EXCEPT !.players =
                                    Rename(@, deviceId, playerName)], t)
            ELSE state
       ELSE saveRoomState([state[1] EXCEPT !.players = Append(@, newPlayer)], t)

\* addPlayerToRoom calls createId()
CreatesId(st, deviceId, t) ==
    \/ getRoomState(st, t) = <<>>
    \/ FindByDevice(getRoomState(st, t)[1].players, deviceId) = NullId

\* localStorage after removePlayerFromRoom(roomId, deviceId) at time t
removePlayerFromRoom(st, deviceId, t) ==
    LET state == getRoomState(st, t)
        players == FilterOutDevice(state[1].players, deviceId)
        gm == state[1].gameMasterId
    IN IF state = <<>> THEN <<>>
       ELSE saveRoomState([state[1] EXCEPT
                !.players = players,
                !.gameMasterId =
                    IF gm # NullId /\ ~HasId(players, gm)
                    THEN IF Len(players) > 0 THEN players[1].id ELSE NullId
                    ELSE gm], t)

\* a page calls addPlayerToRoom
StoreAdd(d, name) ==
    /\ CreatesId(stored, d, now) => created < MaxIds
    /\ stored' = addPlayerToRoom(stored, name, d, created + 1, now)
    /\ created' = IF CreatesId(stored, d, now) THEN created + 1 ELSE created
    /\ StoreFrame

\* a page calls removePlayerFromRoom
StoreRemove(d) ==
    /\ stored' = removePlayerFromRoom(stored, d, now)
    /\ UNCHANGED created
    /\ StoreFrame

\* onPlayerNameInputChange
TypeName(d) ==
    /\ view[d].phase = "lobby"
    /\ myPlayer[d] = NullId
    /\ ~playerNameInput[d]
    /\ playerNameInput' = [playerNameInput EXCEPT ![d] = TRUE]
    /\ UNCHANGED <<libVars, retryVars, serverVars, now, ws, toServer, toClient, view, myPlayer,
                   isGameMaster, roundComplete, reshuffleUsed, timeLeft,
                   reshuffled>>

\* handleAddMyself -> addPlayerToRoom
AddMyself(d, name) ==
    /\ view[d].phase = "lobby"
    /\ myPlayer[d] = NullId
    /\ playerNameInput[d]
    /\ ws[d] = "open"
    /\ SendAll(d, <<JoinRoomMsg(d),
                    [type |-> "add-player", playerName |-> name,
                     deviceId |-> d, roomId |-> NoRoom]>>)
    /\ playerNameInput' = [playerNameInput EXCEPT ![d] = FALSE]
    /\ UNCHANGED <<libVars, retryVars, serverVars, now, ws, toClient, view, myPlayer, isGameMaster,
                   roundComplete, reshuffleUsed, timeLeft, reshuffled>>

\* handleRemoveMyself -> removePlayerFromRoom
RemoveMyself(d) ==
    /\ view[d].phase = "lobby"
    /\ myPlayer[d] # NullId
    /\ SendAll(d, <<[type |-> "remove-player", deviceId |-> d]>>)
    /\ myPlayer' = [myPlayer EXCEPT ![d] = NullId]
    /\ UNCHANGED <<libVars, retryVars, serverVars, now, ws, toClient, view, isGameMaster,
                   playerNameInput, roundComplete, reshuffleUsed, timeLeft,
                   reshuffled>>

\* copy[i] = copy[j] without the assignment in the other direction
SwapOver(a, i, j) == [a EXCEPT ![i] = a[j]]

\* [copy[i], copy[j]] = [copy[j], copy[i]]
Swap(a, i, j) == [a EXCEPT ![i] = a[j], ![j] = a[i]]

\* the arrays the shuffle loop of pickWords can leave in `copy` from index i down
RECURSIVE Shuffled(_, _)
Shuffled(copy, i) ==
    IF i <= 1 THEN {copy}
    ELSE UNION {Shuffled(Swap(copy, i, j), i - 1) : j \in 1..i}

\* pickWords(pool, count): every result the random choices allow
pickWords(pool, count) ==
    {SubSeq(c, 1, IF count < Len(c) THEN count ELSE Len(c)) :
        c \in Shuffled(pool, Len(pool))}

\* the round index is not reset
StartUpdatesKeepRound(d, words) ==
    [players |-> view[d].roomPlayers,
     roundDuration |-> view[d].roundDuration,
     phase |-> "playing",
     roundWords |-> words,
     currentRound |-> view[d].currentRound,
     playersWithScores |-> Seeded(view[d].roomPlayers),
     history |-> <<>>,
     gameMasterId |-> myPlayer[d]]

\* the updates startGameWithRoster sends
StartUpdates(d, words) ==
    [players |-> view[d].roomPlayers,
     roundDuration |-> view[d].roundDuration,
     phase |-> "playing",
     roundWords |-> words,
     currentRound |-> 0,
     playersWithScores |-> Seeded(view[d].roomPlayers),
     history |-> <<>>,
     gameMasterId |-> myPlayer[d]]

\* startGameWithRoster(selectedRoster)
startGameWithRoster(d, words) ==
    /\ Len(view[d].roomPlayers) > 0
    /\ words \in pickWords(WORD_POOL, ROUND_TOTAL)
    /\  LET v2 == [view[d] EXCEPT !.players = Seeded(view[d].roomPlayers),
                                  !.roundWords = words,
                                  !.currentRound = 0,
                                  !.history = <<>>,
                                  !.phase = "playing"]
        IN /\ view' = [view EXCEPT ![d] = v2]
           /\ ResetRound(d, v2, myPlayer[d])
           /\ IF myPlayer[d] # NullId
              THEN SendAll(d, <<[type |-> "update-room",
                                 updates |-> StartUpdates(d, words),
                                 deviceId |-> d]>>)
              ELSE UNCHANGED toServer
    /\ UNCHANGED <<libVars, retryVars, serverVars, now, ws, toClient, myPlayer, isGameMaster,
                   playerNameInput>>

\* handleStartGame: the button is rendered for isGameMaster and enabled by canStart
StartGame(d, words) ==
    /\ view[d].phase = "lobby"
    /\ isGameMaster[d]
    /\ myPlayer[d] # NullId
    /\ startGameWithRoster(d, words)

\* the values the round timer control of the lobby is moved to:
\* <input type="range" min={10} max={60} step={5}>
Timers == {10, 20, 60}

\* the round timer control of Lobby, rendered for isGameMaster
\* -> handleTimerChange
TimerChange(d, timer) ==
    /\ view[d].phase = "lobby"
    /\ isGameMaster[d]
    /\ timer # view[d].roundDuration
    /\ LET v2 == [view[d] EXCEPT !.roundDuration = timer]
       IN /\ view' = [view EXCEPT ![d] = v2]
          /\ ResetRound(d, v2, myPlayer[d])
    /\ IF myPlayer[d] # NullId
       THEN SendAll(d, <<[type |-> "update-room",
                          updates |-> [roundDuration |-> timer],
                          deviceId |-> d]>>)
       ELSE UNCHANGED toServer
    /\ UNCHANGED <<libVars, retryVars, serverVars, now, ws, toClient, myPlayer,
                   isGameMaster, playerNameInput>>

\* handleReplay
Replay(d, words) ==
    /\ view[d].phase = "leaderboard"
    /\ startGameWithRoster(d, words)

\* handleReturnToLobby
ReturnToLobby(d) ==
    /\ view[d].phase = "leaderboard"
    /\ LET v2 == [view[d] EXCEPT !.phase = "lobby", !.players = <<>>,
                                 !.roundWords = <<>>, !.currentRound = 0,
                                 !.history = <<>>]
       IN /\ view' = [view EXCEPT ![d] = v2]
          /\ ResetRound(d, v2, myPlayer[d])
    /\ UNCHANGED <<libVars, retryVars, serverVars, now, ws, toServer, toClient, myPlayer,
                   isGameMaster, playerNameInput>>

\* the song and artist a player types
Song == "song"
Artist == "artist"

\* the local history append of handleRoundWin / handleRoundTimeout / handleRoundSkip
LocalOutcome(d, entry) ==
    /\ view' = [view EXCEPT ![d].history = Append(@, entry)]
    /\ roundComplete' = [roundComplete EXCEPT ![d] = TRUE]
    /\ UNCHANGED <<libVars, retryVars, reshuffleUsed, reshuffled>>

\* GameRound.handleSubmit with a verification that succeeds -> handleRoundWin
Submit(d) ==
    /\ GameRoundShown(view[d], myPlayer[d])
    /\ ~roundComplete[d]
    /\ LET word == ActiveWord(view[d])
       IN /\ SendAll(d, <<[type |-> "player-submission", playerId |-> myPlayer[d],
                           word |-> word, song |-> Song, artist |-> Artist,
                           deviceId |-> d, round |-> view[d].currentRound]>>)
          /\ LocalOutcome(d, HistoryEntry(word, "success", myPlayer[d], Song, Artist))
    /\ UNCHANGED <<libVars, retryVars, serverVars, now, ws, toClient, myPlayer, isGameMaster,
                   playerNameInput, timeLeft>>

\* GameRound.handleSkip -> handleRoundSkip
Skip(d) ==
    /\ GameRoundShown(view[d], myPlayer[d])
    /\ ~roundComplete[d]
    /\ LET word == ActiveWord(view[d])
       IN /\ SendAll(d, <<[type |-> "round-skip", word |-> word, deviceId |-> d,
                           round |-> view[d].currentRound]>>)
          /\ LocalOutcome(d, HistoryEntry(word, "skipped", Undefined, Undefined,
                                          Undefined))
    /\ UNCHANGED <<libVars, retryVars, serverVars, now, ws, toClient, myPlayer, isGameMaster,
                   playerNameInput, timeLeft>>

\* const gameMaster = useMemo(...): the id of the player the client takes for
\* the game master
ClientGameMaster(v) ==
    IF Len(v.roomPlayers) = 0 THEN NullId
    ELSE IF v.gameMasterId # NullId /\ HasId(v.roomPlayers, v.gameMasterId)
    THEN v.gameMasterId
    ELSE v.roomPlayers[1].id

\* one second of the countdown of GameRound passes and time is left
Second(d) ==
    /\ GameRoundShown(view[d], myPlayer[d])
    /\ ~roundComplete[d]
    /\ timeLeft[d] - 1 > 0
    /\ view[d].roundDuration - timeLeft[d] < MaxSeconds
    /\ timeLeft' = [timeLeft EXCEPT ![d] = @ - 1]
    /\ UNCHANGED <<libVars, retryVars, serverVars, now, ws, toServer, toClient, view, myPlayer,
                   isGameMaster, playerNameInput, roundComplete, reshuffleUsed,
                   reshuffled>>

\* the countdown of GameRound reaches 0 and the grace period passes
Countdown(d) ==
    /\ GameRoundShown(view[d], myPlayer[d])
    /\ ~roundComplete[d]
    /\ timeLeft' = [timeLeft EXCEPT ![d] = 0]
    /\ LET word == ActiveWord(view[d])
       IN IF myPlayer[d] = ClientGameMaster(view[d])
          THEN /\ SendAll(d, <<[type |-> "round-timeout", word |-> word,
                                deviceId |-> d, round |-> view[d].currentRound]>>)
               /\ LocalOutcome(d, HistoryEntry(word, "timeout", Undefined,
                                               Undefined, Undefined))
          ELSE /\ roundComplete' = [roundComplete EXCEPT ![d] = TRUE]
               /\ UNCHANGED <<toServer, view, reshuffleUsed, reshuffled>>
    /\ UNCHANGED <<libVars, retryVars, serverVars, now, ws, toClient, myPlayer, isGameMaster,
                   playerNameInput>>

\* setTimeLeft(prev => prev - 1) with time left: one second of the countdown
\* of GameRound passes
Pass(d) ==
    /\ GameRoundShown(view[d], myPlayer[d])
    /\ ~roundComplete[d]
    /\ timeLeft[d] - 1 > 0
    /\ timeLeft' = [timeLeft EXCEPT ![d] = @ - 1]
    /\ UNCHANGED <<libVars, retryVars, serverVars, now, ws, toServer, toClient, view, myPlayer,
                   isGameMaster, playerNameInput, roundComplete, reshuffleUsed,
                   reshuffled>>

\* the round is marked complete and nothing is sent
TimeUpUnsent(d) ==
    /\ timeLeft[d] - 1 <= 0
    /\ GameRoundShown(view[d], myPlayer[d])
    /\ ~roundComplete[d]
    /\ timeLeft' = [timeLeft EXCEPT ![d] = 0]
    /\ roundComplete' = [roundComplete EXCEPT ![d] = TRUE]
    /\ UNCHANGED <<libVars, retryVars, serverVars, now, ws, toServer, toClient, view, myPlayer,
                   isGameMaster, playerNameInput, reshuffleUsed, reshuffled>>

\* the last second of the countdown passes (newTime <= 0), then the grace
\* period; a reset of GameRound during the grace period clears its interval
\* and is the reset before this step
TimeUp(d) ==
    /\ timeLeft[d] - 1 <= 0
    /\ Countdown(d)

\* the words handleReshuffleWord picks from: WORD_POOL without the words of
\* history and of the rounds before this one; the current word stays in
Candidates(v) ==
    IF v.currentRound + 1 \in 1..Len(v.roundWords)
    THEN LET used == ({v.history[i].word : i \in 1..Len(v.history)}
                      \cup {v.roundWords[i] : i \in 1..v.currentRound})
                     \ {v.roundWords[v.currentRound + 1]}
         IN {WORD_POOL[i] : i \in 1..Len(WORD_POOL)} \ used
    ELSE {}

\* GameRound.handleReshuffle -> handleReshuffleWord, then the reset effect of
\* GameRound, which runs when the word has changed
Reshuffle(d, nextWord) ==
    /\ GameRoundShown(view[d], myPlayer[d])
    /\ ClientGameMaster(view[d]) # NullId
    /\ ~roundComplete[d]
    /\ ~reshuffleUsed[d]
    /\ nextWord \in Candidates(view[d])
    /\ LET updated == [view[d].roundWords EXCEPT
                            ![view[d].currentRound + 1] = nextWord]
           changed == nextWord # ActiveWord(view[d])
       IN /\ view' = [view EXCEPT ![d].roundWords = updated]
          /\ SendAll(d, <<[type |-> "update-room",
                           updates |-> [roundWords |-> updated],
                           deviceId |-> d]>>)
          /\ reshuffleUsed' = [reshuffleUsed EXCEPT ![d] = ~changed]
          /\ timeLeft' = [timeLeft EXCEPT ![d] =
                IF changed THEN view[d].roundDuration ELSE @]
          /\ reshuffled' = [reshuffled EXCEPT ![d] = @ \/ changed]
    /\ UNCHANGED <<libVars, retryVars, serverVars, now, ws, toClient, myPlayer, isGameMaster,
                   playerNameInput, roundComplete>>

\* ------------------------------------------------------- lyrics validation
\* Strings are sequences of characters.
Letters ==
    <<"a", "b", "c", "d", "e", "f", "g", "h", "i", "j", "k", "l", "m",
      "n", "o", "p", "q", "r", "s", "t", "u", "v", "w", "x", "y", "z">>
Capitals ==
    <<"A", "B", "C", "D", "E", "F", "G", "H", "I", "J", "K", "L", "M",
      "N", "O", "P", "Q", "R", "S", "T", "U", "V", "W", "X", "Y", "Z">>

\* index of character c in seq, or 0
IndexIn(seq, c) ==
    IF \E i \in 1..Len(seq) : seq[i] = c
    THEN CHOOSE i \in 1..Len(seq) : seq[i] = c
    ELSE 0

\* String.prototype.toLowerCase
toLowerCase(s) ==
    [i \in 1..Len(s) |->
        IF IndexIn(Capitals, s[i]) > 0 THEN Letters[IndexIn(Capitals, s[i])]
        ELSE s[i]]

\* String.prototype.toUpperCase
toUpperCase(s) ==
    [i \in 1..Len(s) |->
        IF IndexIn(Letters, s[i]) > 0 THEN Capitals[IndexIn(Letters, s[i])]
        ELSE s[i]]

RECURSIVE trimStart(_)
trimStart(s) == IF s # <<>> /\ Head(s) = " " THEN trimStart(Tail(s)) ELSE s

RECURSIVE trimEnd(_)
trimEnd(s) ==
    IF s # <<>> /\ s[Len(s)] = " " THEN trimEnd(SubSeq(s, 1, Len(s) - 1)) ELSE s

\* the string is used as it is
untrimmed(s) == s

\* String.prototype.trim
trim(s) == trimEnd(trimStart(s))

\* String.prototype.endsWith
endsWith(s, suffix) ==
    /\ Len(s) >= Len(suffix)
    /\ SubSeq(s, Len(s) - Len(suffix) + 1, Len(s)) = suffix

\* s.slice(0, -n)
sliceEnd(s, n) == SubSeq(s, 1, Len(s) - n)

\* Generate singular and plural forms of a word
getWordVariants(word) ==
    LET lower == trim(toLowerCase(word))
        singular ==
            IF endsWith(lower, <<"s">>) /\ Len(lower) > 1
            THEN IF endsWith(lower, <<"e", "s">>) /\ Len(lower) > 2
                 THEN {sliceEnd(lower, 2)}
                 ELSE IF endsWith(lower, <<"i", "e", "s">>) /\ Len(lower) > 3
                 THEN {sliceEnd(lower, 3) \o <<"y">>}
                 ELSE IF endsWith(lower, <<"v", "e", "s">>) /\ Len(lower) > 3
                 THEN {sliceEnd(lower, 3) \o <<"f">>,
                       sliceEnd(lower, 3) \o <<"f", "e">>}
                 ELSE IF ~endsWith(lower, <<"s", "s">>)
                 THEN {sliceEnd(lower, 1)}
                 ELSE {}
            ELSE {}
        addS == IF ~endsWith(lower, <<"s">>) THEN {lower \o <<"s">>} ELSE {}
        \* /[sxz]|[cs]h$/: an s, x or z anywhere, or ch or sh at the end
        addEs ==
            IF /\ \/ \E i \in 1..Len(lower) : lower[i] \in {"s", "x", "z"}
                  \/ endsWith(lower, <<"c", "h">>)
                  \/ endsWith(lower, <<"s", "h">>)
               /\ ~endsWith(lower, <<"e", "s">>)
            THEN {lower \o <<"e", "s">>} ELSE {}
        beforeY == sliceEnd(lower, 1)
        addIes ==
            IF /\ endsWith(lower, <<"y">>) /\ Len(lower) > 1
               /\ beforeY # <<>>
               /\ beforeY[Len(beforeY)] \notin {"a", "e", "i", "o", "u"}
            THEN {beforeY \o <<"i", "e", "s">>} ELSE {}
        addVes ==
            (IF endsWith(lower, <<"f">>) /\ Len(lower) > 1
             THEN {sliceEnd(lower, 1) \o <<"v", "e", "s">>} ELSE {})
            \cup (IF endsWith(lower, <<"f", "e">>) /\ Len(lower) > 2
                  THEN {sliceEnd(lower, 2) \o <<"v", "e", "s">>} ELSE {})
    IN IF lower = <<>> THEN {word}
       ELSE {lower} \cup singular \cup addS \cup addEs \cup addIes \cup addVes

\* \w of a regular expression, over the characters used here
isWordChar(c) == IndexIn(Letters, c) > 0 \/ IndexIn(Capitals, c) > 0

\* new RegExp(`\\b${escaped}\\b`, 'i').test(text), for a variant of letters
test(variant, text) ==
    \E i \in 1..(Len(text) - Len(variant) + 1) :
        /\ Len(variant) > 0
        /\ toLowerCase(SubSeq(text, i, i + Len(variant) - 1)) = toLowerCase(variant)
        /\ i = 1 \/ ~isWordChar(text[i - 1])
        /\ i + Len(variant) - 1 = Len(text) \/ ~isWordChar(text[i + Len(variant)])

\* value.replace(/^(the|a|an)\s+/i, '').trim()
stripLeadingThe(value) ==
    LET articles == {<<"t", "h", "e">>, <<"a">>, <<"a", "n">>}
        fits(a) == /\ Len(value) > Len(a)
                   /\ toLowerCase(SubSeq(value, 1, Len(a))) = a
                   /\ value[Len(a) + 1] = " "
    IN IF \E a \in articles : fits(a)
       THEN LET a == CHOOSE a \in articles : fits(a)
            IN trim(SubSeq(value, Len(a) + 1, Len(value)))
       ELSE trim(value)

\* value.toLowerCase().split(/\s+/).map(capitalise).join(' ')
RECURSIVE titleFrom(_, _)
titleFrom(s, atStart) ==
    IF s = <<>> THEN <<>>
    ELSE IF Head(s) = " "
    THEN IF Len(s) > 1 /\ s[2] = " " THEN titleFrom(Tail(s), TRUE)
         ELSE <<" ">> \o titleFrom(Tail(s), TRUE)
    ELSE (IF atStart THEN toUpperCase(<<Head(s)>>) ELSE <<Head(s)>>)
         \o titleFrom(Tail(s), FALSE)

toTitleCase(value) == titleFrom(toLowerCase(value), TRUE)

\* Array.from(new Set(list)): the first occurrences, in order
RECURSIVE dedupe(_)
dedupe(list) ==
    IF list = <<>> THEN <<>>
    ELSE LET rest == dedupe(SubSeq(list, 1, Len(list) - 1))
             last == list[Len(list)]
         IN IF \E i \in 1..Len(rest) : rest[i] = last THEN rest
            ELSE Append(rest, last)

buildArtistVariants(artist) ==
    LET trimmed == trim(artist)
        variants == <<trimmed, toTitleCase(trimmed), stripLeadingThe(trimmed),
                      toTitleCase(stripLeadingThe(trimmed))>>
        nonEmpty(v) == v # <<>>
    IN dedupe(SelectSeq(variants, nonEmpty))

\* what a lookup returns when it yields nothing: null
NoLyrics == [found |-> FALSE, lyrics |-> <<>>]

\* tryFetchLyrics, by what the request does: fetch rejects (network error,
\* abort after the timeout) and response.json() rejects (unparsable body)
\* are caught, a status that is not OK returns null, a body without lyrics
\* gives ''
tryFetchLyrics(outcome) ==
    IF outcome.kind \in {"network-error", "timeout", "unparsable"} THEN NoLyrics
    ELSE IF outcome.kind = "non-ok" THEN NoLyrics
    ELSE IF outcome.kind = "no-lyrics" THEN [found |-> TRUE, lyrics |-> <<>>]
    ELSE [found |-> TRUE, lyrics |-> outcome.lyrics]

\* the word test on lyrics that were found
wordCheck(word, lyrics, lookups) ==
    IF \E variant \in getWordVariants(word) : test(variant, lyrics)
    THEN [ok |-> TRUE, reason |-> "none", lookups |-> lookups]
    ELSE [ok |-> FALSE, reason |-> "not-detected", lookups |-> lookups]

\* verifyLyricsContainWord({ song, artist, word }) with the cache entry and
\* the lookup outcomes of `env`; `lookups` counts the requests issued
verifyLyricsContainWord(p, env) ==
    LET trimmedSong == trim(p.song)
        trimmedArtist == trim(p.artist)
        variants == SubSeq(buildArtistVariants(trimmedArtist), 1,
                           IF Len(buildArtistVariants(trimmedArtist)) < 2
                           THEN Len(buildArtistVariants(trimmedArtist)) ELSE 2)
        settled == [i \in 1..Len(variants) |-> tryFetchLyrics(env.outcomes[i])]
        hit(i) == settled[i].found /\ settled[i].lyrics # <<>>
    IN IF trimmedSong = <<>> \/ trimmedArtist = <<>>
       THEN [ok |-> FALSE, reason |-> "provide-both", lookups |-> 0]
       ELSE IF env.cached # <<>>
       THEN wordCheck(p.word, env.cached, 0)
       ELSE IF ~\E i \in 1..Len(variants) : hit(i)
       THEN [ok |-> FALSE, reason |-> "not-found", lookups |-> Len(variants)]
       ELSE LET first == CHOOSE i \in 1..Len(variants) :
                            hit(i) /\ \A j \in 1..(i - 1) : ~hit(j)
            IN wordCheck(p.word, settled[first].lyrics, Len(variants))

\* verifyLyricsContainWord has not returned
Pending == [ok |-> FALSE, reason |-> "pending", lookups |-> 0]

\* no connection has dropped
NoRetry ==
    /\ reconnectAttempts = [d \in Devices |-> 0]
    /\ retryDelay = [d \in Devices |-> 0]
    /\ connectionError = [d \in Devices |-> FALSE]
    /\ failedAttempts = [d \in Devices |-> 0]

\* ------------------------------------------------------- the lyrics cache
\* const CACHE_TTL = 10 * 60 * 1000
CACHE_TTL == 600000

\* MAX_CACHE_SIZE, 200 in the source
MAX_CACHE_SIZE == 2

\* getCacheKey(artist, song): one key more than the cache may hold
CacheKeys == 1..(MAX_CACHE_SIZE + 1)

\* localStorage.getItem returns null
Absent == -1

\* what is left unchanged by the functions of the cache
CacheFrame ==
    UNCHANGED <<pickVars, lyricVars, sockVars, storeVars, retryVars, serverVars,
                ws, toServer, toClient, clientVars>>

\* Map.prototype.set: an existing key keeps its place
mapSet(map, key, timestamp) ==
    IF \E i \in 1..Len(map) : map[i].key = key
    THEN [i \in 1..Len(map) |->
            IF map[i].key = key
            THEN [key |-> key, timestamp |-> timestamp] ELSE map[i]]
    ELSE Append(map, [key |-> key, timestamp |-> timestamp])

\* Map.prototype.delete for every key of a set
mapDelete(map, keys) ==
    LET keep(e) == e.key \notin keys IN SelectSeq(map, keep)

\* the keys of entries.sort((a, b) => a[1].timestamp - b[1].timestamp)
\* .slice(0, n); the sort is stable
Oldest(map, n) ==
    {map[i].key : i \in {x \in 1..Len(map) :
        Cardinality({j \in 1..Len(map) :
            \/ map[j].timestamp < map[x].timestamp
            \/ map[j].timestamp = map[x].timestamp /\ j < x}) < n}}

\* cleanupCache() at time t: the memory cache and localStorage afterwards
cleanupCache(mem, ls, t) ==
    LET keysToDelete ==
            {mem[i].key : i \in {x \in 1..Len(mem) :
                                    t - mem[x].timestamp > CACHE_TTL}}
        mem1 == mapDelete(mem, keysToDelete)
        ls1 == [k \in CacheKeys |-> IF k \in keysToDelete THEN Absent ELSE ls[k]]
        toRemove == Oldest(mem1, Len(mem1) - MAX_CACHE_SIZE)
    IN IF Len(mem1) > MAX_CACHE_SIZE
       THEN [mem |-> mapDelete(mem1, toRemove),
             ls |-> [k \in CacheKeys |-> IF k \in toRemove THEN Absent ELSE ls1[k]]]
       ELSE [mem |-> mem1, ls |-> ls1]

\* setCachedLyrics(artist, song, lyrics) at time t; `full`: localStorage.setItem
\* throws
setCachedLyrics(mem, ls, key, t, full) ==
    LET mem1 == mapSet(mem, key, t)
        ls1 == [ls EXCEPT ![key] = t]
    IN IF full THEN cleanupCache(mem1, ls, t)
       ELSE IF Len(mem1) > MAX_CACHE_SIZE THEN cleanupCache(mem1, ls1, t)
       ELSE [mem |-> mem1, ls |-> ls1]

\* getCachedLyrics(artist, song) at time t: the caches afterwards and the
\* entry returned, <<>> for null
getCachedLyrics(mem, ls, key, t) ==
    IF \E i \in 1..Len(mem) :
            mem[i].key = key /\ t - mem[i].timestamp < CACHE_TTL
    THEN [mem |-> mem, ls |-> ls,
          result |-> <<[key |-> key, at |-> t,
                        timestamp |-> mem[CHOOSE i \in 1..Len(mem) :
                                            mem[i].key = key].timestamp]>>]
    ELSE IF ls[key] # Absent
    THEN IF t - ls[key] < CACHE_TTL
         THEN [mem |-> mapSet(mem, key, ls[key]), ls |-> ls,
               result |-> <<[key |-> key, at |-> t, timestamp |-> ls[key]]>>]
         ELSE [mem |-> mem, ls |-> [ls EXCEPT ![key] = Absent], result |-> <<>>]
    ELSE [mem |-> mem, ls |-> ls, result |-> <<>>]

\* a lookup reads the cache
CacheRead(key) ==
    /\ lyricsCache' = getCachedLyrics(lyricsCache, localCache, key, now).mem
    /\ localCache' = getCachedLyrics(lyricsCache, localCache, key, now).ls
    /\ returned' = getCachedLyrics(lyricsCache, localCache, key, now).result
    /\ UNCHANGED now
    /\ CacheFrame

\* a lookup that found lyrics stores them
CacheWrite(key, full) ==
    /\ lyricsCache' = setCachedLyrics(lyricsCache, localCache, key, now, full).mem
    /\ localCache' = setCachedLyrics(lyricsCache, localCache, key, now, full).ls
    /\ UNCHANGED <<returned, now>>
    /\ CacheFrame

\* the page is loaded again: `const lyricsCache = new Map()`, localStorage
\* stays
PageLoad ==
    /\ lyricsCache' = <<>>
    /\ returned' = <<>>
    /\ UNCHANGED <<localCache, now>>
    /\ CacheFrame

\* no page has looked up lyrics on this device
NoCache ==
    /\ lyricsCache = <<>>
    /\ localCache = [k \in CacheKeys |-> Absent]
    /\ returned = <<>>

\* pickWords has not been called
NoPick ==
    /\ pickPool = <<>>
    /\ picked = Undefined

\* verifyLyricsContainWord has not been called
NoVerify ==
    /\ payload = [song |-> <<>>, artist |-> <<>>, word |-> <<>>]
    /\ backend = [cached |-> <<>>, outcomes |-> <<>>]
    /\ verdict = Pending

\* getWebSocketClient has not been called
NoSocket ==
    /\ sockets = <<>>
    /\ thisWs = 0
    /\ timers = 0

\* localStorage holds no room and roomSync has created no id
NoStore ==
    /\ stored = <<>>
    /\ created = 0

\* no function has been called on its own
Idle == NoPick /\ NoVerify /\ NoSocket /\ NoStore /\ NoCache

\* ------------------------------------------------------------ specification
\* no connection has been made
Unjoined ==
    /\ rooms = << >>
    /\ nextId = 0
    /\ now = 0
    /\ currentRoomId = [d \in Devices |-> NoRoom]
    /\ connDeviceId = [d \in Devices |-> NoRoom]
    /\ ws = [d \in Devices |-> "init"]
    /\ toServer = [d \in Devices |-> <<>>]
    /\ toClient = [d \in Devices |-> <<>>]
    /\ view = [d \in Devices |-> InitView]
    /\ myPlayer = [d \in Devices |-> NullId]
    /\ isGameMaster = [d \in Devices |-> FALSE]
    /\ playerNameInput = [d \in Devices |-> FALSE]
    /\ roundComplete = [d \in Devices |-> FALSE]
    /\ reshuffleUsed = [d \in Devices |-> FALSE]
    /\ timeLeft = [d \in Devices |-> DEFAULT_TIMER]
    /\ reshuffled = [d \in Devices |-> FALSE]
    /\ handled = Nothing
    /\ lostId = [d \in Devices |-> NullId]
    /\ NoRetry

Init == Unjoined /\ Idle

Next ==
    \/ Tick
    \/ Sweep
    \/ \E d \in Devices :
        \/ Connect(d)
        \/ Close(d)
        \/ Reconnect(d)
        \/ RetryFails(d)
        \/ ServerNoRoom(d)
        \/ ServerJoinRoom(d)
        \/ ServerAddPlayer(d)
        \/ ServerRemovePlayer(d)
        \/ ServerUpdateRoom(d)
        \/ ServerCatch(d)
        \/ ServerPlayerSubmission(d)
        \/ ServerRoundTimeout(d)
        \/ ServerRoundSkip(d)
        \/ Deliver(d)
        \/ DeliverRewatch(d)
        \/ TypeName(d)
        \/ \E name \in Names : AddMyself(d, name)
        \/ RemoveMyself(d)
        \/ \E words \in pickWords(WORD_POOL, ROUND_TOTAL) : StartGame(d, words)
        \/ \E words \in pickWords(WORD_POOL, ROUND_TOTAL) : Replay(d, words)
        \/ ReturnToLobby(d)
        \/ \E timer \in Timers : TimerChange(d, timer)
        \/ Submit(d)
        \/ Skip(d)
        \/ Second(d)
        \/ Pass(d)
        \/ TimeUp(d)
        \/ Countdown(d)
        \/ \E w \in Candidates(view[d]) : Reshuffle(d, w)

Spec == Init /\ [][Next]_vars


\* ------------------------------------------------- the server and its peers
\* one result of pickWords, for the runs in which the choice of words is fixed
OnePick == CHOOSE w \in pickWords(WORD_POOL, ROUND_TOTAL) : TRUE

\* the round a peer that has seen the latest room state is in
PeerRound ==
    IF ClientRoom \in DOMAIN rooms THEN rooms[ClientRoom].currentRound ELSE 0

\* the word such a peer has on screen
PeerWord ==
    IF ClientRoom \in DOMAIN rooms
       /\ PeerRound + 1 \in 1..Len(rooms[ClientRoom].roundWords)
    THEN rooms[ClientRoom].roundWords[PeerRound + 1] ELSE WORD_POOL[1]

\* the start-game updates of a peer that has seen the latest room state
PeerStart(d) ==
    LET players == IF ClientRoom \in DOMAIN rooms
                   THEN rooms[ClientRoom].players ELSE <<>>
    IN [players |-> players,
        roundDuration |-> DEFAULT_TIMER,
        phase |-> "playing",
        roundWords |-> OnePick,
        currentRound |-> 0,
        playersWithScores |-> Seeded(players),
        history |-> <<>>,
        gameMasterId |-> FindByDevice(players, d)]

\* the messages of the protocol a peer can send on connection d
PeerMessages(d) ==
    {JoinRoomMsg(d), [type |-> "remove-player", deviceId |-> d]}
    \cup {[type |-> "add-player", playerName |-> n, deviceId |-> d,
           roomId |-> NoRoom] : n \in Names}
    \cup {[type |-> "add-player", playerName |-> Names1, deviceId |-> d,
           roomId |-> ClientRoom]}
    \cup {[type |-> "player-submission", playerId |-> id, word |-> PeerWord,
           song |-> Song, artist |-> Artist, deviceId |-> d,
           round |-> PeerRound] : id \in 1..MaxIds}
    \cup {[type |-> t, word |-> PeerWord, deviceId |-> d, round |-> PeerRound] :
            t \in {"round-timeout", "round-skip"}}
    \cup {[type |-> "update-room", updates |-> PeerStart(d), deviceId |-> d]}

\* ws.on('message'): a peer sends message m on its open connection
Inject(d, m) ==
    /\ ws[d] = "open"
    /\ Cardinality({c \in Devices : toServer[c] # <<>>}) < MaxFlight
    /\ \A c \in Devices : toClient[c] = <<>>
    /\ m \in PeerMessages(d)
    /\ SendAll(d, <<m>>)
    /\ UNCHANGED <<libVars, retryVars, serverVars, now, ws, toClient, clientVars>>

\* handleMessage -> emit with no listener registered: the message is consumed
Discard(d) ==
    /\ ws[d] = "open"
    /\ toClient[d] # <<>>
    /\ toClient' = [toClient EXCEPT ![d] = Tail(@)]
    /\ UNCHANGED <<libVars, retryVars, serverVars, now, ws, toServer, clientVars>>

\* every peer, every message
NextServer ==
    \/ Tick
    \/ \E d \in Devices :
        \/ Connect(d)
        \/ Close(d)
        \/ Reconnect(d)
        \/ ServerNoRoom(d)
        \/ ServerJoinRoom(d)
        \/ ServerAddPlayer(d)
        \/ ServerRemovePlayer(d)
        \/ ServerUpdateRoom(d)
        \/ ServerPlayerSubmission(d)
        \/ ServerRoundTimeout(d)
        \/ ServerRoundSkip(d)
        \/ Discard(d)
        \/ \E m \in PeerMessages(d) : Inject(d, m)

SpecServer == Init /\ [][NextServer]_vars

\* --------------------------------------------------------------- the runs
\* Each specification below is a part of Spec (App clients) or of SpecServer
\* (peers): it starts in a state they reach and takes a subset of their steps.
Pair == {"d1", "d2"}

Roster3 ==
    <<[id |-> 1, name |-> Names1, deviceId |-> "d1"],
      [id |-> 2, name |-> Names1, deviceId |-> "d2"],
      [id |-> 3, name |-> Names1, deviceId |-> "d3"]>>

Roster2 == SubSeq(Roster3, 1, 2)

\* the room after the devices of `players` have joined and added themselves
LobbyOf(players) ==
    [roomId |-> ClientRoom, players |-> players, phase |-> "lobby",
     roundDuration |-> DEFAULT_TIMER, roundWords |-> <<>>, currentRound |-> 0,
     playersWithScores |-> <<>>, history |-> <<>>,
     gameMasterId |-> players[1].id, lastUpdated |-> 0]

\* the devices of `players` are connected, have joined ClientRoom and added
\* themselves in roster order; every broadcast has been received.  `app`
\* tells whether the devices run App (which copies the state) or are peers.
Joined(players, app) ==
    LET in(d) == FindByDevice(players, d) # NullId
        last == players[Len(players)].deviceId
    IN /\ rooms = [r \in {ClientRoom} |-> LobbyOf(players)]
       /\ nextId = Len(players)
       /\ now = 0
       /\ currentRoomId = [d \in Devices |-> IF in(d) THEN ClientRoom ELSE NoRoom]
       /\ connDeviceId = [d \in Devices |-> IF in(d) THEN d ELSE NoRoom]
       /\ ws = [d \in Devices |-> IF in(d) THEN "open" ELSE "init"]
       /\ toServer = [d \in Devices |-> <<>>]
       /\ toClient = [d \in Devices |-> <<>>]
       /\ view = [d \in Devices |->
                    IF app /\ in(d) THEN ApplyState(LobbyOf(players)) ELSE InitView]
       /\ myPlayer = [d \in Devices |->
                    IF app THEN FindByDevice(players, d) ELSE NullId]
       /\ isGameMaster = [d \in Devices |->
                    app /\ in(d) /\ FindByDevice(players, d) = players[1].id]
       /\ playerNameInput = [d \in Devices |-> FALSE]
       /\ roundComplete = [d \in Devices |-> FALSE]
       /\ reshuffleUsed = [d \in Devices |-> FALSE]
       /\ timeLeft = [d \in Devices |-> DEFAULT_TIMER]
       /\ reshuffled = [d \in Devices |-> FALSE]
       /\ Idle
       /\ NoRetry
       /\ handled = [conn |-> last, type |-> "add-player", deviceId |-> last,
                     playerId |-> NullId]
       /\ lostId = [d \in Devices |-> NullId]

\* two App clients play one game
InitGame == Joined(Roster2, TRUE)

NextGame ==
    \E d \in Pair :
        \/ ServerUpdateRoom(d)
        \/ ServerPlayerSubmission(d)
        \/ ServerRoundTimeout(d)
        \/ ServerRoundSkip(d)
        \/ Deliver(d)
        \/ StartGame(d, OnePick)
        \/ Submit(d)
        \/ Skip(d)
        \/ Countdown(d)

SpecGame == InitGame /\ [][NextGame]_vars

\* two App clients in the lobby
NextLobby ==
    \E d \in Pair :
        \/ Connect(d)
        \/ ServerJoinRoom(d)
        \/ ServerAddPlayer(d)
        \/ ServerRemovePlayer(d)
        \/ ServerUpdateRoom(d)
        \/ Deliver(d)
        \/ TypeName(d)
        \/ AddMyself(d, Names1)
        \/ RemoveMyself(d)
        \/ StartGame(d, OnePick)

SpecLobby == Init /\ [][NextLobby]_vars

\* two peers come, go and come back
RosterMessages(d) ==
    {m \in PeerMessages(d) :
        m.type \in {"join-room", "add-player", "remove-player"}}

NextRoster ==
    \E d \in Pair :
        \/ Connect(d)
        \/ Close(d)
        \/ Reconnect(d)
        \/ ServerNoRoom(d)
        \/ ServerJoinRoom(d)
        \/ ServerAddPlayer(d)
        \/ ServerRemovePlayer(d)
        \/ Discard(d)
        \/ \E m \in RosterMessages(d) : Inject(d, m)

SpecRoster == Init /\ [][NextRoster]_vars

\* three peers with a player each leave one by one
InitHandoff == Joined(Roster3, FALSE)

HandoffMessages(d) ==
    {m \in PeerMessages(d) :
        m.type \in {"remove-player", "round-timeout", "round-skip"}}

NextHandoff ==
    \E d \in Devices :
        \/ Close(d)
        \/ ServerRemovePlayer(d)
        \/ ServerRoundTimeout(d)
        \/ ServerRoundSkip(d)
        \/ Discard(d)
        \/ \E m \in HandoffMessages(d) : Inject(d, m)

SpecHandoff == InitHandoff /\ [][NextHandoff]_vars

\* two peers with a player each send game messages
InitAuth == Joined(Roster2, FALSE)

AuthMessages(d) ==
    {m \in PeerMessages(d) :
        m.type \in {"remove-player", "update-room", "player-submission",
                    "round-timeout", "round-skip"}}

NextAuth ==
    \/ Tick
    \/ \E d \in Pair :
        \/ ServerRemovePlayer(d)
        \/ ServerUpdateRoom(d)
        \/ ServerPlayerSubmission(d)
        \/ ServerRoundTimeout(d)
        \/ ServerRoundSkip(d)
        \/ Discard(d)
        \/ \E m \in AuthMessages(d) : Inject(d, m)

SpecAuth == InitAuth /\ [][NextAuth]_vars

\* the room after a game of two App clients: player 1 started it, player 2
\* won the first round and player 1's countdown ended the second
BoardRoom ==
    [roomId |-> ClientRoom, players |-> Roster2, phase |-> "leaderboard",
     roundDuration |-> DEFAULT_TIMER, roundWords |-> OnePick,
     currentRound |-> ROUND_TOTAL,
     playersWithScores |-> [Seeded(Roster2) EXCEPT ![2].score = 1],
     history |-> <<HistoryEntry(OnePick[1], "success", 2, Song, Artist),
                   HistoryEntry(OnePick[2], "timeout", Undefined, Undefined,
                                Undefined)>>,
     gameMasterId |-> 1, lastUpdated |-> 0]

\* both clients show the leaderboard of that game
InitBoard ==
    /\ rooms = [r \in {ClientRoom} |-> BoardRoom]
    /\ nextId = 2
    /\ now = 0
    /\ currentRoomId = [d \in Devices |-> IF d \in Pair THEN ClientRoom ELSE NoRoom]
    /\ connDeviceId = [d \in Devices |-> IF d \in Pair THEN d ELSE NoRoom]
    /\ ws = [d \in Devices |-> IF d \in Pair THEN "open" ELSE "init"]
    /\ toServer = [d \in Devices |-> <<>>]
    /\ toClient = [d \in Devices |-> <<>>]
    /\ view = [d \in Devices |->
                 IF d \in Pair THEN ApplyState(BoardRoom) ELSE InitView]
    /\ myPlayer = [d \in Devices |-> FindByDevice(Roster2, d)]
    /\ isGameMaster = [d \in Devices |-> d = "d1"]
    /\ playerNameInput = [d \in Devices |-> FALSE]
    /\ roundComplete = [d \in Devices |-> FALSE]
    /\ reshuffleUsed = [d \in Devices |-> FALSE]
    /\ timeLeft = [d \in Devices |-> DEFAULT_TIMER]
    /\ reshuffled = [d \in Devices |-> FALSE]
    /\ Idle
    /\ NoRetry
    /\ handled = [conn |-> "d1", type |-> "round-timeout", deviceId |-> "d1",
                  playerId |-> NullId]
    /\ lostId = [d \in Devices |-> NullId]

\* two App clients at the leaderboard replay, return to the lobby and play
NextBoard ==
    \E d \in Pair :
        \/ ServerUpdateRoom(d)
        \/ ServerPlayerSubmission(d)
        \/ ServerRoundTimeout(d)
        \/ Deliver(d)
        \/ StartGame(d, OnePick)
        \/ Replay(d, OnePick)
        \/ ReturnToLobby(d)
        \/ Submit(d)
        \/ Countdown(d)

SpecBoard == InitBoard /\ [][NextBoard]_vars

\* a peer sends message m, well-formed or not, on its open connection
PeerSend(d, m) ==
    /\ ws[d] = "open"
    /\ Cardinality({c \in Devices : toServer[c] # <<>>}) < MaxFlight
    /\ \A c \in Devices : toClient[c] = <<>>
    /\ SendAll(d, <<m>>)
    /\ UNCHANGED <<libVars, retryVars, serverVars, now, ws, toClient, clientVars>>

\* two peers with a player each send text that is not JSON, the JSON text
\* null, updates that set history to null or start a game, and submissions
NextFault ==
    \E d \in Pair :
        \/ ServerCatch(d)
        \/ ServerUpdateRoom(d)
        \/ ServerPlayerSubmission(d)
        \/ Discard(d)
        \/ PeerSend(d, [type |-> "unparsable"])
        \/ PeerSend(d, [type |-> "null"])
        \/ PeerSend(d, [type |-> "update-room", updates |-> [history |-> Null],
                        deviceId |-> d])
        \/ PeerSend(d, [type |-> "update-room", updates |-> PeerStart(d),
                        deviceId |-> d])
        \/ PeerSend(d, [type |-> "player-submission",
                        playerId |-> FindByDevice(Roster2, d), word |-> PeerWord,
                        song |-> Song, artist |-> Artist, deviceId |-> d,
                        round |-> 0])

SpecFault == Joined(Roster2, FALSE) /\ [][NextFault]_vars

\* the connections of two App clients drop; every attempt to connect again
\* succeeds or fails
NextRetry ==
    \E d \in Pair :
        \/ Close(d)
        \/ Reconnect(d)
        \/ RetryFails(d)
        \/ Deliver(d)

SpecRetry == InitGame /\ [][NextRetry]_vars

\* two App clients at the leaderboard return to the lobby, set the round
\* timer and start games
NextTimer ==
    \E d \in Pair :
        \/ ServerUpdateRoom(d)
        \/ Deliver(d)
        \/ StartGame(d, OnePick)
        \/ ReturnToLobby(d)
        \/ \E timer \in Timers : TimerChange(d, timer)

SpecTimer == InitBoard /\ [][NextTimer]_vars

\* two App clients play one game; the client of player 1, the game master,
\* reshuffles words
NextReshuffle ==
    \/ \E d \in Pair :
        \/ ServerUpdateRoom(d)
        \/ ServerRoundTimeout(d)
        \/ Deliver(d)
        \/ StartGame(d, OnePick)
        \/ Second(d)
        \/ Countdown(d)
    \/ \E w \in Candidates(view["d1"]) : Reshuffle("d1", w)

SpecReshuffle == InitGame /\ [][NextReshuffle]_vars

\* a second room
OtherRoom == "S"

\* handleJoinRoom -> setRoomId -> watchRoomState -> joinRoom: a peer asks for
\* the room rid on its open connection
PeerJoin(d, rid) ==
    /\ ws[d] = "open"
    /\ Cardinality({c \in Devices : toServer[c] # <<>>}) < MaxFlight
    /\ \A c \in Devices : toClient[c] = <<>>
    /\ SendAll(d, <<[type |-> "join-room", roomId |-> rid, deviceId |-> d]>>)
    /\ UNCHANGED <<libVars, retryVars, serverVars, now, ws, toClient, clientVars>>

\* two peers with a player each move between two rooms, add and remove
\* players, start games, submit answers and close their connections
InitRooms == Joined(Roster2, FALSE)

\* the game is played in ClientRoom only
RoomsMessages(d) ==
    {m \in PeerMessages(d) :
        /\ m.type \in {"add-player", "remove-player", "update-room",
                       "player-submission"}
        /\ m.type = "add-player" => m.playerName = Names1 /\ m.roomId = NoRoom
        /\ m.type \in {"update-room", "player-submission"}
            => currentRoomId[d] = ClientRoom
        /\ m.type = "player-submission"
            => m.playerId = FindByDevice(rooms[ClientRoom].players, d)}

NextRooms ==
    \E d \in Pair :
        \/ Close(d)
        \/ ServerJoinRoom(d)
        \/ ServerAddPlayer(d)
        \/ ServerRemovePlayer(d)
        \/ ServerUpdateRoom(d)
        \/ ServerPlayerSubmission(d)
        \/ Discard(d)
        \/ PeerJoin(d, ClientRoom)
        \/ PeerJoin(d, OtherRoom)
        \/ \E m \in RoomsMessages(d) : Inject(d, m)

SpecRooms == InitRooms /\ [][NextRooms]_vars

\* the half hours the clock of the cleanup run is advanced by
MaxClock == 3

ClockStep == HOUR \div 2

\* Date.now() half an hour later
Elapse ==
    /\ now < MaxClock * ClockStep
    /\ now' = now + ClockStep
    /\ UNCHANGED <<libVars, retryVars, serverVars, ws, toServer, toClient, clientVars>>

SweepMessages(d) ==
    {m \in PeerMessages(d) :
        /\ m.type \in {"add-player", "remove-player"}
        /\ m.type = "add-player" => m.playerName = Names1 /\ m.roomId = NoRoom}

\* two peers with a player each move between two rooms and change their
\* rosters while the clock advances and the cleanup runs
NextSweep ==
    \/ Tick
    \/ Elapse
    \/ Sweep
    \/ \E d \in Pair :
        \/ Close(d)
        \/ ServerNoRoom(d)
        \/ ServerJoinRoom(d)
        \/ ServerAddPlayer(d)
        \/ ServerRemovePlayer(d)
        \/ Discard(d)
        \/ PeerJoin(d, ClientRoom)
        \/ PeerJoin(d, OtherRoom)
        \/ \E m \in SweepMessages(d) : Inject(d, m)

SpecSweep == InitRooms /\ [][NextSweep]_vars

\* the device of player 1, the game master
GameMasterDevice == "d1"
\* a device that connects while the game is on
Guest == "d3"

\* the game master's App client starts a game and lets every round run out
\* while a third device joins the room, adds a player and removes it again
NextCountdown ==
    \/ \E d \in Devices :
        \/ ServerJoinRoom(d)
        \/ ServerAddPlayer(d)
        \/ ServerRemovePlayer(d)
        \/ ServerUpdateRoom(d)
        \/ ServerRoundTimeout(d)
        \/ Deliver(d)
    \/ Pass(GameMasterDevice)
    \/ TimeUp(GameMasterDevice)
    \/ StartGame(GameMasterDevice, OnePick)
    \/ Connect(Guest)
    \/ PeerSend(Guest, [type |-> "add-player", playerName |-> Names1,
                        deviceId |-> Guest, roomId |-> NoRoom])
    \/ PeerSend(Guest, [type |-> "remove-player", deviceId |-> Guest])

\* the server handles every message it has received, open sockets deliver
\* what they hold, and the timers of the game master's GameRound fire
FairCountdown ==
    /\ \A d \in Devices :
        /\ WF_vars(ServerJoinRoom(d))
        /\ WF_vars(ServerAddPlayer(d))
        /\ WF_vars(ServerRemovePlayer(d))
        /\ WF_vars(ServerUpdateRoom(d))
        /\ WF_vars(ServerRoundTimeout(d))
        /\ WF_vars(Deliver(d))
    /\ WF_vars(Pass(GameMasterDevice))
    /\ WF_vars(TimeUp(GameMasterDevice))

SpecCountdown == InitGame /\ [][NextCountdown]_vars /\ FairCountdown

\* two App clients connect and add themselves; nothing else is done, and
\* every room state a client receives runs its effects
NextWatch ==
    \E d \in Pair :
        \/ Connect(d)
        \/ ServerJoinRoom(d)
        \/ ServerAddPlayer(d)
        \/ DeliverRewatch(d)
        \/ TypeName(d)
        \/ AddMyself(d, Names1)

SpecWatch == Init /\ [][NextWatch]_vars

\* one page: the functions of websocketSync are called in any order while
\* its sockets open and close
NextSockets ==
    \/ GetWebSocketClient
    \/ WatchRoomState
    \/ TimerFires
    \/ \E i \in 1..Len(sockets) :
        \/ SocketOpen(i)
        \/ SocketClose(i)

SpecSockets == Init /\ [][NextSockets]_vars

\* the pages of three devices add and remove their players in the room of
\* localStorage while the clock advances
NextStore ==
    \/ Elapse
    \/ \E d \in Devices :
        \/ \E name \in Names : StoreAdd(d, name)
        \/ StoreRemove(d)

SpecStore == Init /\ [][NextStore]_vars

\* the half TTLs the clock of the cache run is advanced by
MaxWaits == 3

\* Date.now() five minutes later
Later ==
    /\ now < MaxWaits * (CACHE_TTL \div 2)
    /\ now' = now + CACHE_TTL \div 2
    /\ UNCHANGED <<libVars, retryVars, serverVars, ws, toServer, toClient, clientVars>>

\* pages of one device look up and store lyrics under one key more than the
\* cache may hold, reload, and time passes
NextCache ==
    \/ Later
    \/ PageLoad
    \/ \E key \in CacheKeys :
        \/ CacheRead(key)
        \/ \E full \in BOOLEAN : CacheWrite(key, full)

SpecCache == Init /\ [][NextCache]_vars

\* the pools pickWords is called with: ROUND_TOTAL to MaxPool pairwise-distinct
\* words
PoolWords == {"w1", "w2", "w3", "w4"}

Pools ==
    {p \in UNION {[1..n -> PoolWords] : n \in ROUND_TOTAL..MaxPool} :
        \A i, j \in 1..Len(p) : i # j => p[i] # p[j]}

InitPick ==
    /\ Unjoined
    /\ NoCache
    /\ NoStore
    /\ NoVerify
    /\ NoSocket
    /\ pickPool \in Pools
    /\ picked = Undefined

\* const words = pickWords(pool, ROUND_TOTAL)
PickWords ==
    /\ picked = Undefined
    /\ picked' \in pickWords(pickPool, ROUND_TOTAL)
    /\ UNCHANGED <<retryVars, serverVars, now, ws, toServer, toClient,
                   clientVars, pickPool, lyricVars, sockVars, storeVars, cacheVars>>

SpecPick == InitPick /\ [][PickWords]_vars

\* the target words a round can ask for
Words ==
    {<<"c", "a", "t">>, <<"c", "a", "t", "s">>, <<"C", "a", "t", "s">>,
     <<"c", "a", "k", "e">>, <<"c", "a", "k", "e", "s">>,
     <<"c", "i", "t", "y">>, <<"c", "i", "t", "i", "e", "s">>,
     <<"l", "e", "a", "f">>, <<"l", "e", "a", "v", "e", "s">>,
     <<"k", "n", "i", "f", "e">>, <<"k", "n", "i", "v", "e", "s">>,
     <<"b", "o", "x">>, <<"b", "o", "x", "e", "s">>}

\* the song and artist fields: empty, blank, and filled in
Songs == {<<>>, <<" ">>, <<" ", "s", "o">>}
Artists == {<<>>, <<" ", " ">>, <<"t", "h", "e", " ", "w", "h", "o">>, <<"A", "b">>}

\* lyrics in which `word` is the only word besides "my" and "oh"
Sentence(word) == <<"m", "y", " ">> \o word \o <<",", " ", "o", "h">>

Texts == {Sentence(w) : w \in Words}

\* what a lookup of one artist variant can come to
Outcomes ==
    {[kind |-> k, lyrics |-> <<>>] :
        k \in {"network-error", "timeout", "non-ok", "unparsable",
               "no-lyrics", "lyrics"}}
    \cup {[kind |-> "lyrics", lyrics |-> t] : t \in Texts}

InitLyrics ==
    /\ Unjoined
    /\ NoCache
    /\ NoStore
    /\ NoPick
    /\ NoSocket
    /\ payload \in [song : Songs, artist : Artists, word : Words]
    /\ backend \in [cached : {<<>>, Sentence(<<"c", "a", "t">>)},
                    outcomes : [1..2 -> Outcomes]]
    /\ verdict = Pending

\* const result = await verifyLyricsContainWord({ song, artist, word })
Verify ==
    /\ verdict = Pending
    /\ verdict' = verifyLyricsContainWord(payload, backend)
    /\ UNCHANGED <<retryVars, serverVars, now, ws, toServer, toClient,
                   clientVars, pickVars, payload, backend, sockVars, storeVars, cacheVars>>

SpecLyrics == InitLyrics /\ [][Verify]_vars

\* ------------------------------------------------------------------ claims
\* the server handles the message at the head of toServer[d] in this step
Handles(d) ==
    /\ ws[d] = "open"
    /\ toServer[d] # <<>>
    /\ ws' = ws
    /\ toServer' = [toServer EXCEPT ![d] = Tail(@)]

\* the outcome a message asks the server to record
OutcomeOf(m) ==
    IF m.type = "player-submission" THEN "success"
    ELSE IF m.type = "round-timeout" THEN "timeout" ELSE "skipped"

OutcomeTypes == {"player-submission", "round-timeout", "round-skip"}

\* the server handles an outcome message of connection d that was issued for
\* a round the room has already left; `first` is the entry recorded for it
LateOutcome(d) ==
    /\ Handles(d)
    /\ Head(toServer[d]).type \in OutcomeTypes
    /\ HasRoom(d)
    /\ Head(toServer[d]).round < rooms[currentRoomId[d]].currentRound
    /\ Head(toServer[d]).round < Len(rooms[currentRoomId[d]].history)

FirstOutcome(d) ==
    rooms[currentRoomId[d]].history[Head(toServer[d]).round + 1]

\* C1: when a success and a timeout or skip were issued for the same round,
\* the one the server handles second is a no-op: the room keeps the single
\* history entry of that round and currentRound does not advance again.
C1_SecondOutcomeIsNoOp ==
    [][\A d \in Devices :
        (/\ LateOutcome(d)
         /\ ("success" = OutcomeOf(Head(toServer[d])))
                # ("success" = FirstOutcome(d).outcome))
        => rooms' = rooms]_vars

\* C2: when two different players' successful submissions were issued for the
\* same round, the one the server handles second changes nothing: one score
\* is incremented and the round advances once.
C2_SecondSubmissionIsNoOp ==
    [][\A d \in Devices :
        (/\ LateOutcome(d)
         /\ Head(toServer[d]).type = "player-submission"
         /\ FirstOutcome(d).outcome = "success"
         /\ FirstOutcome(d).winnerId # Head(toServer[d]).playerId)
        => rooms' = rooms]_vars

\* C3: in every room, gameMasterId is null exactly when players is empty, and
\* otherwise it is the id of an entry of players.
C3_GameMasterInRoster ==
    \A r \in DOMAIN rooms :
        /\ (rooms[r].gameMasterId = NullId) <=> (rooms[r].players = <<>>)
        /\ rooms[r].gameMasterId # NullId
            => HasId(rooms[r].players, rooms[r].gameMasterId)

\* C4: in every room, 0 <= currentRound <= len(roundWords).
C4_RoundWithinWords ==
    \A r \in DOMAIN rooms :
        /\ 0 <= rooms[r].currentRound
        /\ rooms[r].currentRound <= Len(rooms[r].roundWords)

\* the device has a roster entry in the room and it is the game master's
HoldsRole(room, dev) ==
    \E i \in 1..Len(room.players) :
        /\ room.players[i].deviceId = dev
        /\ room.players[i].id = room.gameMasterId

\* the step is the game master's update-room on room r
GameMasterUpdate(r) ==
    \E d \in Devices :
        /\ Handles(d)
        /\ Head(toServer[d]).type = "update-room"
        /\ currentRoomId[d] = r
        /\ HoldsRole(rooms[r], Head(toServer[d]).deviceId)

\* C5: a room is created in phase lobby; its phase only moves lobby ->
\* playing -> leaderboard, never from lobby to leaderboard in one step, and
\* it leaves leaderboard only by an update-room of the game master.
C5_PhaseMovesForward ==
    [][\A r \in DOMAIN rooms' :
        IF r \notin DOMAIN rooms THEN rooms'[r].phase = "lobby"
        ELSE \/ rooms'[r].phase = rooms[r].phase
             \/ rooms[r].phase = "lobby" /\ rooms'[r].phase = "playing"
             \/ rooms[r].phase = "playing" /\ rooms'[r].phase = "leaderboard"
             \/ rooms[r].phase = "leaderboard" /\ GameMasterUpdate(r)]_vars

\* the entries of players other than the one with this id, in roster order
Without(players, id) ==
    LET keep(p) == p.id # id IN SelectSeq(players, keep)

\* C6: when the game master's entry leaves the roster (remove-player or
\* close), gameMasterId becomes the id of the first remaining player in
\* roster order, or null if none remains; and a round-timeout or round-skip
\* of the device that owns the game master's entry is accepted: it appends
\* its history entry and advances the round.
C6_GameMasterHandoff ==
    [][\A r \in DOMAIN rooms :
        /\ (/\ rooms[r].gameMasterId # NullId
            /\ HasId(rooms[r].players, rooms[r].gameMasterId)
            /\ ~HasId(rooms'[r].players, rooms[r].gameMasterId))
           => /\ rooms'[r].players =
                    Without(rooms[r].players, rooms[r].gameMasterId)
              /\ rooms'[r].gameMasterId =
                    IF rooms'[r].players = <<>> THEN NullId
                    ELSE rooms'[r].players[1].id
        /\ \A d \in Devices :
            (/\ Handles(d)
             /\ Head(toServer[d]).type \in {"round-timeout", "round-skip"}
             /\ currentRoomId[d] = r
             /\ HoldsRole(rooms[r], Head(toServer[d]).deviceId))
            => /\ rooms'[r].history =
                    Append(rooms[r].history,
                           HistoryEntry(Head(toServer[d]).word,
                                        OutcomeOf(Head(toServer[d])),
                                        Undefined, Undefined, Undefined))
               /\ rooms'[r].currentRound = rooms[r].currentRound + 1]_vars

\* the first game master (player 1) is gone, the first of the two remaining
\* players has the role, and the server has just handled and recorded a
\* round-timeout or round-skip of that player's device
C6_Witness ==
    /\ ClientRoom \in DOMAIN rooms
    /\ LET room == rooms[ClientRoom]
       IN /\ Len(room.players) = 2
          /\ ~HasId(room.players, 1)
          /\ room.gameMasterId = room.players[1].id
          /\ handled.type \in {"round-timeout", "round-skip"}
          /\ handled.deviceId = room.players[1].deviceId
          /\ room.history # <<>>
          /\ room.history[Len(room.history)].outcome =
                IF handled.type = "round-timeout" THEN "timeout" ELSE "skipped"

\* C7: a device that had a player when its connection closed and then sends
\* add-player again has, after the server handled it, a roster entry with
\* the id it had before.
C7_ReconnectKeepsPlayerId ==
    [][\A d \in Devices :
        (/\ Handles(d)
         /\ Head(toServer[d]).type = "add-player"
         /\ lostId[Head(toServer[d]).deviceId] # NullId
         /\ currentRoomId'[d] \in DOMAIN rooms')
        => FindByDevice(rooms'[currentRoomId'[d]].players,
                        Head(toServer[d]).deviceId)
              = lostId[Head(toServer[d]).deviceId]]_vars

RosterUnique(players) ==
    \A i, j \in 1..Len(players) :
        i # j => /\ players[i].deviceId # players[j].deviceId
                 /\ players[i].id # players[j].id

\* C8: every roster has at most one entry per deviceId and pairwise distinct
\* ids; an add-player for a deviceId that has an entry changes only the name
\* of that entry.
C8_OneEntryPerDevice ==
    /\ [](\A r \in DOMAIN rooms : RosterUnique(rooms[r].players))
    /\ [][\A d \in Devices :
            (/\ Handles(d)
             /\ Head(toServer[d]).type = "add-player"
             /\ currentRoomId'[d] \in DOMAIN rooms
             /\ FindIndex(rooms[currentRoomId'[d]].players,
                          Head(toServer[d]).deviceId) # 0)
            => LET old == rooms[currentRoomId'[d]].players
                   new == rooms'[currentRoomId'[d]].players
                   i == FindIndex(old, Head(toServer[d]).deviceId)
               IN /\ Len(new) = Len(old)
                  /\ \A k \in 1..Len(old) :
                        new[k] = IF k = i
                                 THEN [old[k] EXCEPT
                                         !.name = Head(toServer[d]).playerName]
                                 ELSE old[k]]_vars

\* the device of player 1 was renamed after player 2 had been added: the
\* add-player handled last came from a device that already had an entry
C8_Witness ==
    /\ ClientRoom \in DOMAIN rooms
    /\ handled.type = "add-player"
    /\ handled.conn = "d1"
    /\ rooms[ClientRoom].players =
            <<[id |-> 1, name |-> "Bo", deviceId |-> "d1"],
              [id |-> 2, name |-> "Al", deviceId |-> "d2"]>>

\* C9: an update-room, round-timeout or round-skip of a device that has no
\* roster entry, or whose entry is not the game master, changes no room
\* (lastUpdated included) and sends nothing.
C9_NonGameMasterDropped ==
    [][\A d \in Devices :
        (/\ Handles(d)
         /\ Head(toServer[d]).type \in {"update-room", "round-timeout",
                                        "round-skip"}
         /\ currentRoomId[d] \in DOMAIN rooms
         /\ ~HoldsRole(rooms[currentRoomId[d]], Head(toServer[d]).deviceId))
        => rooms' = rooms /\ toClient' = toClient]_vars

\* the server has handled such a message of a device that is not the game
\* master, and the room's lastUpdated is older than the clock
C9_Witness ==
    /\ ClientRoom \in DOMAIN rooms
    /\ handled.type \in {"update-room", "round-timeout", "round-skip"}
    /\ currentRoomId[handled.conn] = ClientRoom
    /\ ~HoldsRole(rooms[ClientRoom], handled.deviceId)
    /\ rooms[ClientRoom].players # <<>>
    /\ rooms[ClientRoom].lastUpdated < now

\* the roster has an entry with this deviceId and this id
IsEntry(room, dev, id) ==
    \E i \in 1..Len(room.players) :
        room.players[i].deviceId = dev /\ room.players[i].id = id

\* C10: a player-submission whose playerId is not the id of the roster entry
\* of its deviceId, or whose deviceId has no entry, changes no room and sends
\* nothing.
C10_ForeignSubmissionRejected ==
    [][\A d \in Devices :
        (/\ Handles(d)
         /\ Head(toServer[d]).type = "player-submission"
         /\ currentRoomId[d] \in DOMAIN rooms
         /\ ~IsEntry(rooms[currentRoomId[d]], Head(toServer[d]).deviceId,
                      Head(toServer[d]).playerId))
        => rooms' = rooms /\ toClient' = toClient]_vars

\* the server has just handled a submission of a device that has a player,
\* made in the name of another player of the roster
C10_Witness ==
    /\ ClientRoom \in DOMAIN rooms
    /\ handled.type = "player-submission"
    /\ currentRoomId[handled.conn] = ClientRoom
    /\ FindByDevice(rooms[ClientRoom].players, handled.deviceId) # NullId
    /\ HasId(rooms[ClientRoom].players, handled.playerId)
    /\ ~IsEntry(rooms[ClientRoom], handled.deviceId, handled.playerId)

\* the score of the player with this id: 0 when the list has no entry for it
Points(pws, id) ==
    IF \E i \in 1..Len(pws) : pws[i].id = id
    THEN pws[CHOOSE i \in 1..Len(pws) : pws[i].id = id].score
    ELSE 0

\* C11: a player-submission of the device that owns player p is accepted:
\* p's score grows by exactly 1, every other score entry and the roster stay
\* as they were, history gets exactly one more entry {word, success,
\* winnerId = p, song, artist} and currentRound grows by exactly 1.
C11_AcceptedSubmission ==
    [][\A d \in Devices :
        (/\ Handles(d)
         /\ Head(toServer[d]).type = "player-submission"
         /\ currentRoomId[d] \in DOMAIN rooms
         /\ IsEntry(rooms[currentRoomId[d]], Head(toServer[d]).deviceId,
                    Head(toServer[d]).playerId))
        => LET m == Head(toServer[d])
               old == rooms[currentRoomId[d]]
               new == rooms'[currentRoomId[d]]
           IN /\ new.players = old.players
              /\ new.history =
                    Append(old.history,
                           [word |-> m.word, outcome |-> "success",
                            winnerId |-> m.playerId, song |-> m.song,
                            artist |-> m.artist])
              /\ new.currentRound = old.currentRound + 1
              /\ Points(new.playersWithScores, m.playerId)
                    = Points(old.playersWithScores, m.playerId) + 1
              /\ Len(new.playersWithScores) \in
                    {Len(old.playersWithScores), Len(old.playersWithScores) + 1}
              /\ \A i \in 1..Len(old.playersWithScores) :
                    old.playersWithScores[i].id # m.playerId
                        => new.playersWithScores[i] = old.playersWithScores[i]
              /\ \A i \in 1..Len(new.playersWithScores) :
                    i > Len(old.playersWithScores)
                        => new.playersWithScores[i].id = m.playerId]_vars

\* in a started game with a score entry for each of the two players, the
\* server has just accepted a submission of player 2, the second entry
C11_Witness ==
    /\ ClientRoom \in DOMAIN rooms
    /\ handled.type = "player-submission"
    /\ handled.playerId = 2
    /\ LET room == rooms[ClientRoom]
       IN /\ IsEntry(room, handled.deviceId, handled.playerId)
          /\ Len(room.playersWithScores) = 2
          /\ room.playersWithScores[1].id = 1
          /\ Points(room.playersWithScores, 2) >= 1
          /\ room.history # <<>>
          /\ room.history[Len(room.history)].outcome = "success"
          /\ room.history[Len(room.history)].winnerId = 2

\* C12: a round-timeout or round-skip of the device that owns the game
\* master's entry is accepted: history gets exactly one more entry with that
\* outcome and without winnerId, song and artist; currentRound grows by 1 and
\* phase becomes leaderboard exactly when the new currentRound has reached
\* the number of round words; scores and roster stay as they were.
C12_AcceptedTimeoutOrSkip ==
    [][\A d \in Devices :
        (/\ Handles(d)
         /\ Head(toServer[d]).type \in {"round-timeout", "round-skip"}
         /\ currentRoomId[d] \in DOMAIN rooms
         /\ HoldsRole(rooms[currentRoomId[d]], Head(toServer[d]).deviceId))
        => LET m == Head(toServer[d])
               old == rooms[currentRoomId[d]]
               new == rooms'[currentRoomId[d]]
           IN /\ new.history =
                    Append(old.history,
                           [word |-> m.word,
                            outcome |-> IF m.type = "round-timeout"
                                        THEN "timeout" ELSE "skipped",
                            winnerId |-> "undefined", song |-> "undefined",
                            artist |-> "undefined"])
              /\ new.currentRound = old.currentRound + 1
              /\ new.phase = IF old.currentRound + 1 >= Len(old.roundWords)
                             THEN "leaderboard" ELSE old.phase
              /\ new.playersWithScores = old.playersWithScores
              /\ new.players = old.players
              /\ new.roundWords = old.roundWords
              /\ new.gameMasterId = old.gameMasterId]_vars

\* a player has scored in the first round of a game, and the server has just
\* accepted a round-timeout or round-skip of the game master for the last
\* round, which ended the game
C12_Witness ==
    /\ ClientRoom \in DOMAIN rooms
    /\ handled.type \in {"round-timeout", "round-skip"}
    /\ LET room == rooms[ClientRoom]
       IN /\ HoldsRole(room, handled.deviceId)
          /\ room.phase = "leaderboard"
          /\ room.currentRound = Len(room.roundWords)
          /\ \E i \in 1..Len(room.playersWithScores) :
                room.playersWithScores[i].score > 0
          /\ Len(room.history) = room.currentRound
          /\ room.history # <<>>
          /\ room.history[Len(room.history)].outcome =
                IF handled.type = "round-timeout" THEN "timeout" ELSE "skipped"
          /\ room.history[Len(room.history)].winnerId = "undefined"

\* the message sent last on a channel that is not empty
LastSent(q) == q[Len(q)]

\* room r is created or changed in this step
Mutated(r) == r \notin DOMAIN rooms \/ rooms'[r] # rooms[r]

\* C13: when the server has created or changed room R, every open connection
\* scoped to R, the originator included, has as its last message a room-state
\* with R's new state, and the channel of every open connection scoped to
\* another room is as it was; at any time the last message sent and not yet
\* received on an open connection scoped to a room carries that room's state.
C13_BroadcastToRoom ==
    /\ [](\A c \in Devices :
            (ws[c] = "open" /\ currentRoomId[c] \in DOMAIN rooms
                /\ toClient[c] # <<>>)
            => LastSent(toClient[c]) =
                    [type |-> "room-state", state |-> rooms[currentRoomId[c]]])
    /\ [][\A r \in DOMAIN rooms' :
            Mutated(r) =>
                \A c \in Devices :
                    ws'[c] = "open" =>
                        IF currentRoomId'[c] = r
                        THEN /\ toClient'[c] # <<>>
                             /\ LastSent(toClient'[c]) =
                                    [type |-> "room-state", state |-> rooms'[r]]
                        ELSE toClient'[c] = toClient[c]]_vars

\* one peer is in ClientRoom and the other in OtherRoom; the server has just
\* accepted a submission in ClientRoom: its new state is on the way to the
\* submitter and nothing is on the way to the peer in the other room
C13_Witness ==
    /\ DOMAIN rooms = {ClientRoom, OtherRoom}
    /\ handled.type = "player-submission"
    /\ \E c, o \in Pair :
        /\ handled.conn = c
        /\ ws[c] = "open" /\ ws[o] = "open"
        /\ currentRoomId[c] = ClientRoom
        /\ currentRoomId[o] = OtherRoom
        /\ toClient[o] = <<>>
        /\ toClient[c] = <<[type |-> "room-state", state |-> rooms[ClientRoom]]>>
        /\ rooms[ClientRoom].history # <<>>
        /\ rooms[ClientRoom].history[Len(rooms[ClientRoom].history)].winnerId
                = handled.playerId

\* no message is on its way, in either direction
Quiet ==
    \A c \in Devices : toServer[c] = <<>> /\ toClient[c] = <<>>

\* C14: a client's copy of the shared room fields (phase, roundWords,
\* currentRound, history, scores, roster) is what the last room-state it
\* received made it, and no local action alters it: when no message is on
\* its way, the copy of every client connected to the room is the copy the
\* server's room state gives.
C14_CopyIsServerState ==
    Quiet =>
        \A d \in Devices :
            (ws[d] = "open" /\ currentRoomId[d] = ClientRoom
                /\ ClientRoom \in DOMAIN rooms)
            => view[d] = ApplyState(rooms[ClientRoom])

\* h is the beginning of g
IsPrefix(h, g) == Len(h) <= Len(g) /\ SubSeq(g, 1, Len(h)) = h

GameStart(d) ==
    /\ Handles(d)
    /\ Head(toServer[d]).type = "update-room"
    /\ currentRoomId[d] \in DOMAIN rooms
    /\ HoldsRole(rooms[currentRoomId[d]], Head(toServer[d]).deviceId)
    /\ "phase" \in DOMAIN Head(toServer[d]).updates
    /\ Head(toServer[d]).updates.phase = "playing"

\* C16: when a game starts, every roster member has a score entry with score
\* 0; in every other step each score entry stays in place and its score does
\* not decrease; every score is an integer >= 0.
C16_ScoresSeededAndMonotone ==
    /\ [](\A r \in DOMAIN rooms :
            \A i \in 1..Len(rooms[r].playersWithScores) :
                rooms[r].playersWithScores[i].score \in Nat)
    /\ [][\A r \in DOMAIN rooms :
            LET old == rooms[r]
                new == rooms'[r]
            IN IF \E d \in Devices : GameStart(d) /\ currentRoomId[d] = r
               THEN \A i \in 1..Len(new.players) :
                        \E j \in 1..Len(new.playersWithScores) :
                            /\ new.playersWithScores[j].id = new.players[i].id
                            /\ new.playersWithScores[j].score = 0
               ELSE \A j \in 1..Len(old.playersWithScores) :
                        /\ j <= Len(new.playersWithScores)
                        /\ new.playersWithScores[j].id
                                = old.playersWithScores[j].id
                        /\ new.playersWithScores[j].score
                                >= old.playersWithScores[j].score]_vars

\* the game that ended with a score of 1 was replayed, which set both scores
\* to 0, and the server has just accepted the first submission of the new game
C16_Witness ==
    /\ handled.type = "player-submission"
    /\ LET room == rooms[ClientRoom]
       IN /\ room.phase = "playing"
          /\ room.currentRound = 1
          /\ Len(room.history) = 1
          /\ Len(room.playersWithScores) = 2
          /\ room.playersWithScores[1].score = 1
          /\ room.playersWithScores[2].score = 0

\* a room state in which every round word has been played and the game is
\* still on
PlayedOut(st) ==
    st.phase = "playing" /\ st.currentRound = Len(st.roundWords)

\* C17: when an accepted outcome makes currentRound equal to the number of
\* round words, the room and the room-state sent for that outcome have phase
\* leaderboard; no room and no room-state message has currentRound equal to
\* the number of round words with phase playing.
C17_LeaderboardAtLastRound ==
    /\ [](\A r \in DOMAIN rooms : ~PlayedOut(rooms[r]))
    /\ [](\A c \in Devices : \A i \in 1..Len(toClient[c]) :
            toClient[c][i].type = "room-state" => ~PlayedOut(toClient[c][i].state))
    /\ [][\A d \in Devices :
            (/\ Handles(d)
             /\ Head(toServer[d]).type \in OutcomeTypes
             /\ currentRoomId[d] \in DOMAIN rooms
             /\ rooms'[currentRoomId[d]] # rooms[currentRoomId[d]]
             /\ rooms'[currentRoomId[d]].currentRound
                    = Len(rooms'[currentRoomId[d]].roundWords))
            => /\ rooms'[currentRoomId[d]].phase = "leaderboard"
               /\ toClient'[d] # <<>>
               /\ toClient'[d][Len(toClient'[d])].type = "room-state"
               /\ toClient'[d][Len(toClient'[d])].state.phase = "leaderboard"
               /\ toClient'[d][Len(toClient'[d])].state.currentRound
                    = rooms'[currentRoomId[d]].currentRound]_vars

\* the server has just accepted the outcome of the last round of a started
\* game, and the room-state on its way to the sender has currentRound equal
\* to the number of round words and phase leaderboard
C17_Witness ==
    /\ handled.type \in OutcomeTypes
    /\ toClient[handled.conn] # <<>>
    /\ LET st == toClient[handled.conn][1].state
       IN /\ st = rooms[ClientRoom]
          /\ Len(st.roundWords) = ROUND_TOTAL
          /\ st.currentRound = ROUND_TOTAL
          /\ st.phase = "leaderboard"

\* message m is the update-room that startGameWithRoster sends
IsStart(m) ==
    /\ m.type = "update-room"
    /\ "phase" \in DOMAIN m.updates
    /\ m.updates.phase = "playing"

\* C18: when the server handles the start or replay of the game master's
\* device, the room gets phase playing, currentRound 0, ROUND_TOTAL round
\* words, a non-empty roster with a score entry 0 for every member, no other
\* score than 0, and an empty history; the start or replay of any other
\* device changes no room; no start is sent with an empty roster.
C18_StartResetsTheGame ==
    /\ [](\A c \in Devices : \A i \in 1..Len(toServer[c]) :
            IsStart(toServer[c][i]) => toServer[c][i].updates.players # <<>>)
    /\ [][\A d \in Devices :
            (/\ Handles(d)
             /\ IsStart(Head(toServer[d]))
             /\ currentRoomId[d] \in DOMAIN rooms)
            => LET old == rooms[currentRoomId[d]]
                   new == rooms'[currentRoomId[d]]
               IN IF HoldsRole(old, Head(toServer[d]).deviceId)
                  THEN /\ new.phase = "playing"
                       /\ new.currentRound = 0
                       /\ Len(new.roundWords) = ROUND_TOTAL
                       /\ new.history = <<>>
                       /\ new.players # <<>>
                       /\ \A i \in 1..Len(new.players) :
                            \E j \in 1..Len(new.playersWithScores) :
                                new.playersWithScores[j].id = new.players[i].id
                       /\ \A j \in 1..Len(new.playersWithScores) :
                            new.playersWithScores[j].score = 0
                  ELSE rooms' = rooms]_vars

\* the finished game, in which player 2 had a point, has just been replayed
\* by the game master: the room is in round 0 of a new game, both scores are
\* 0 and history is empty
C18_Witness ==
    /\ handled.type = "update-room"
    /\ HoldsRole(rooms[ClientRoom], handled.deviceId)
    /\ LET room == rooms[ClientRoom]
       IN /\ room.phase = "playing"
          /\ room.currentRound = 0
          /\ room.history = <<>>
          /\ Len(room.roundWords) = ROUND_TOTAL
          /\ Len(room.playersWithScores) = Len(room.players)
          /\ \A j \in 1..Len(room.playersWithScores) :
                room.playersWithScores[j].score = 0

\* C19: once the game master has returned to the lobby from the leaderboard
\* and no message is on its way, the room has phase lobby, the roster it
\* had, and no scores, history or round words, and so has the view of every
\* connected client.
C19_ReturnToLobbyReachesRoom ==
    \A d \in Devices :
        (/\ Quiet
         /\ ClientRoom \in DOMAIN rooms
         /\ HoldsRole(rooms[ClientRoom], d)
         /\ view[d].phase = "lobby")
        => /\ rooms[ClientRoom].phase = "lobby"
           /\ rooms[ClientRoom].players = view[d].roomPlayers
           /\ rooms[ClientRoom].playersWithScores = <<>>
           /\ rooms[ClientRoom].history = <<>>
           /\ rooms[ClientRoom].roundWords = <<>>
           /\ \A c \in Devices :
                (ws[c] = "open" /\ currentRoomId[c] = ClientRoom)
                => view[c].phase = "lobby"

\* C20: once a reshuffle of the game master's client has changed the word of
\* the round its GameRound shows, the client's round words change again only
\* by a received room-state or when the round index changes: a further
\* reshuffle in that round leaves them as they are.
C20_OneReshufflePerRound ==
    [][\A d \in Devices :
        (/\ reshuffled[d]
         /\ ClientRoom \in DOMAIN rooms
         /\ HoldsRole(rooms[ClientRoom], d)
         /\ toClient' = toClient
         /\ ShownRound(view'[d], myPlayer'[d]) = ShownRound(view[d], myPlayer[d]))
        => view'[d].roundWords = view[d].roundWords]_vars


\* the word of the round that the GameRound of d shows is replaced in this step
WordReplaced(d) ==
    /\ GameRoundShown(view[d], myPlayer[d])
    /\ GameRoundShown(view'[d], myPlayer'[d])
    /\ view'[d].currentRound = view[d].currentRound
    /\ view'[d].roundDuration = view[d].roundDuration
    /\ view'[d].history = view[d].history
    /\ ActiveWord(view'[d]) # ActiveWord(view[d])

\* C21: a reshuffle does not reset the round timer: on the client that
\* reshuffles and on every client that receives the new word, timeLeft is
\* the same after the word of the running round was replaced as before
C21_ReshuffleKeepsTimeLeft ==
    [][\A d \in Devices : WordReplaced(d) => timeLeft'[d] = timeLeft[d]]_vars

\* the client of d sends a reshuffled list of round words in this step
ReshuffleSent(d) ==
    /\ Len(toServer'[d]) = Len(toServer[d]) + 1
    /\ LastSent(toServer'[d]).type = "update-room"
    /\ DOMAIN LastSent(toServer'[d]).updates = {"roundWords"}

\* C22: after a reshuffle the word at the current round index is a pool word
\* different from the word it replaced that occurs neither in history nor at
\* an earlier index of roundWords, and every other slot of roundWords is
\* unchanged
C22_ReshufflePicksFreshWord ==
    [][\A d \in Devices :
        ReshuffleSent(d) =>
            LET old == view[d].roundWords
                new == view'[d].roundWords
                k == view[d].currentRound + 1
            IN /\ Len(new) = Len(old)
               /\ new = LastSent(toServer'[d]).updates.roundWords
               /\ \A i \in 1..Len(old) : i # k => new[i] = old[i]
               /\ \E i \in 1..Len(WORD_POOL) : new[k] = WORD_POOL[i]
               /\ new[k] # old[k]
               /\ \A i \in 1..Len(view[d].history) :
                    view[d].history[i].word # new[k]
               /\ \A i \in 1..(k - 1) : old[i] # new[k]]_vars

\* C23: for every pool of at least ROUND_TOTAL pairwise-distinct words,
\* pickWords(pool, ROUND_TOTAL) returns exactly ROUND_TOTAL pairwise-distinct
\* words, each an element of the pool, whatever the random choices, and the
\* pool is the same after the call
C23_PickWordsDistinct ==
    /\ [](picked # Undefined =>
            /\ Len(picked) = ROUND_TOTAL
            /\ \A i, j \in 1..Len(picked) : i # j => picked[i] # picked[j]
            /\ \A i \in 1..Len(picked) :
                \E k \in 1..Len(pickPool) : picked[i] = pickPool[k])
    /\ [][pickPool' = pickPool]_vars

\* a pool longer than the pick, and a pick that is not a prefix of it
C23_Witness ==
    /\ picked # Undefined
    /\ Len(pickPool) > ROUND_TOTAL
    /\ picked # SubSeq(pickPool, 1, ROUND_TOTAL)
    /\ picked[1] = pickPool[Len(pickPool)]

\* C24: join-room is idempotent: a join of a room that exists leaves every
\* stored room unchanged and returns the room's current state, so consecutive
\* joins return equal states; the default lobby state is created only when
\* the room is absent, and then no other room changes
C24_JoinRoomIdempotent ==
    [][\A d \in Devices :
        (Handles(d) /\ Head(toServer[d]).type = "join-room") =>
            LET rid == Head(toServer[d]).roomId
            IN /\ rid \in DOMAIN rooms'
               /\ toClient'[d] # <<>>
               /\ LastSent(toClient'[d]) =
                    [type |-> "room-state", state |-> rooms'[rid]]
               /\ rid \in DOMAIN rooms => rooms' = rooms
               /\ rid \notin DOMAIN rooms =>
                    /\ rooms'[rid] =
                        [roomId |-> rid, players |-> <<>>, phase |-> "lobby",
                         roundDuration |-> 20, roundWords |-> <<>>,
                         currentRound |-> 0, playersWithScores |-> <<>>,
                         history |-> <<>>, gameMasterId |-> NullId,
                         lastUpdated |-> now]
                    /\ \A r \in DOMAIN rooms : rooms'[r] = rooms[r]]_vars

\* a connection has joined again the room in which a game is being played
C24_Witness ==
    /\ handled.type = "join-room"
    /\ handled.conn = "d2"
    /\ ClientRoom \in DOMAIN rooms
    /\ rooms[ClientRoom].phase = "playing"
    /\ Len(rooms[ClientRoom].players) = 2
    /\ currentRoomId["d2"] = ClientRoom
    /\ toClient["d2"] # <<>>
    /\ LastSent(toClient["d2"]).state = rooms[ClientRoom]

\* C25: in the authoritative room state roundDuration always lies in 10..60,
\* and it changes only while the phase of the room is lobby, or as part of
\* an update that starts a game, and only through a message of the game master
C25_TimerSetInLobbyByGameMaster ==
    /\ [](\A r \in DOMAIN rooms : rooms[r].roundDuration \in 10..60)
    /\ [][\A d \in Devices : \A r \in DOMAIN rooms :
            (Handles(d) /\ r \in DOMAIN rooms'
                /\ rooms'[r].roundDuration # rooms[r].roundDuration) =>
                LET m == Head(toServer[d])
                IN /\ m.type = "update-room"
                   /\ currentRoomId[d] = r
                   /\ HoldsRole(rooms[r], m.deviceId)
                   /\ \/ rooms[r].phase = "lobby"
                      \/ /\ "phase" \in DOMAIN m.updates
                         /\ m.updates.phase = "playing"
                         /\ rooms[r].phase # "playing"]_vars

\* the delays before attempts 1, 2, ... of a reconnection, in ms
Backoff == <<1000, 2000, 4000, 8000, 16000>>

Blank(s) == \A i \in 1..Len(s) : s[i] = " "

\* the lookup of variant i yields no lyrics, or empty lyrics
Fruitless(i) ==
    \/ backend.outcomes[i].kind # "lyrics"
    \/ backend.outcomes[i].lyrics = <<>>

Nouns ==
    {<<<<"c", "a", "t">>, <<"c", "a", "t", "s">>>>,
     <<<<"c", "a", "k", "e">>, <<"c", "a", "k", "e", "s">>>>,
     <<<<"c", "i", "t", "y">>, <<"c", "i", "t", "i", "e", "s">>>>,
     <<<<"l", "e", "a", "f">>, <<"l", "e", "a", "v", "e", "s">>>>,
     <<<<"k", "n", "i", "f", "e">>, <<"k", "n", "i", "v", "e", "s">>>>,
     <<<<"b", "o", "x">>, <<"b", "o", "x", "e", "s">>>>}

\* lyrics with the word `other` were found for the target word `target`
FoundWith(target, other) ==
    /\ verdict # Pending
    /\ payload.word = target
    /\ ~Blank(payload.song)
    /\ ~Blank(payload.artist)
    /\ backend.cached = <<>>
    /\ backend.outcomes[1].kind = "lyrics"
    /\ backend.outcomes[1].lyrics = Sentence(other)

\* C28: the word test accepts either grammatical number: a plural target
\* word matches lyrics that contain only its singular and a singular target
\* word matches lyrics that contain only its plural, and getWordVariants of
\* the one contains the other
C28_EitherNumberMatches ==
    \A n \in Nouns :
        /\ FoundWith(n[2], n[1]) =>
                verdict.ok /\ n[1] \in getWordVariants(payload.word)
        /\ FoundWith(n[1], n[2]) =>
                verdict.ok /\ n[2] \in getWordVariants(payload.word)

\* the handling of the message that connection d sent ends in the catch
Caught(d) ==
    /\ Handles(d)
    /\ Len(toClient'[d]) = Len(toClient[d]) + 1
    /\ LastSent(toClient'[d]) =
            [type |-> "error", message |-> "Invalid message format"]

\* C29: a message that cannot be parsed, or whose handling throws, produces
\* an error message sent to the originating connection only: no room state
\* changes, nothing is sent to another connection and the connection stays
\* open; and a message that cannot be parsed always ends this way
C29_ErrorsChangeNothing ==
    [][\A d \in Devices :
        /\ Caught(d) =>
            /\ rooms' = rooms
            /\ currentRoomId' = currentRoomId
            /\ connDeviceId' = connDeviceId
            /\ \A c \in Devices \ {d} : toClient'[c] = toClient[c]
        /\ (Handles(d) /\ Head(toServer[d]).type \in {"unparsable", "null"})
            => Caught(d)]_vars

\* C30: a run of the cleanup deletes exactly the rooms whose lastUpdated lies
\* more than 3600000 ms back, leaves the remaining rooms as they were and
\* sends nothing, and no other step deletes a room; every step that creates a
\* room or changes a stored room stamps it with the current time
C30_SweepPurgesOldRooms ==
    [][/\ (\/ handled' # handled /\ handled'.type = "sweep"
           \/ \E r \in DOMAIN rooms : r \notin DOMAIN rooms')
          => /\ DOMAIN rooms'
                  = {r \in DOMAIN rooms : now - rooms[r].lastUpdated <= 3600000}
             /\ \A r \in DOMAIN rooms' : rooms'[r] = rooms[r]
             /\ toClient' = toClient
       /\ \A r \in DOMAIN rooms' :
            (r \notin DOMAIN rooms \/ rooms'[r] # rooms[r])
                => rooms'[r].lastUpdated = now]_vars

\* the cleanup has deleted the room last changed 3600001 ms ago and kept the
\* room that is exactly one hour old
C30_Witness ==
    /\ handled.type = "sweep"
    /\ DOMAIN rooms = {OtherRoom}
    /\ now - rooms[OtherRoom].lastUpdated = 3600000
    /\ \E d \in Pair : currentRoomId[d] = ClientRoom


Playing == rooms[ClientRoom].phase = "playing"

C32_OutcomesOnlyWhilePlaying ==
    [][\A d \in Devices :
        (/\ Handles(d)
         /\ Head(toServer[d]).type
                \in {"player-submission", "round-timeout", "round-skip"}
         /\ currentRoomId[d] \in DOMAIN rooms
         /\ rooms[currentRoomId[d]].phase \in {"lobby", "leaderboard"})
        => /\ rooms'[currentRoomId[d]].phase = rooms[currentRoomId[d]].phase
           /\ rooms'[currentRoomId[d]].currentRound
                = rooms[currentRoomId[d]].currentRound
           /\ rooms'[currentRoomId[d]].history = rooms[currentRoomId[d]].history
           /\ rooms'[currentRoomId[d]].playersWithScores
                = rooms[currentRoomId[d]].playersWithScores]_vars


\* C33: when the server handles an update-room that starts a game, every
\* player that was in the roster of the room before is in it afterwards
C33_StartKeepsAddedPlayers ==
    [][\A d \in Devices :
        (/\ Handles(d)
         /\ Head(toServer[d]).type = "update-room"
         /\ currentRoomId[d] \in DOMAIN rooms
         /\ "phase" \in DOMAIN Head(toServer[d]).updates
         /\ Head(toServer[d]).updates.phase = "playing")
        => \A i \in 1..Len(rooms[currentRoomId[d]].players) :
              HasId(rooms'[currentRoomId[d]].players,
                    rooms[currentRoomId[d]].players[i].id)]_vars


\* C34: a client whose player is set and in the roster of the room state it
\* receives sends nothing in the step that receives it
C34_RoomStateSendsNoJoin ==
    [][\A d \in Devices :
        (/\ ws[d] = "open"
         /\ toClient[d] # <<>>
         /\ toClient'[d] = Tail(toClient[d])
         /\ Head(toClient[d]).type = "room-state"
         /\ myPlayer[d] # NullId
         /\ FindByDevice(Head(toClient[d]).state.players, d) = myPlayer[d])
        => toServer'[d] = toServer[d]]_vars


\* C35: when a connection closes, no room is left with a player of the
\* device that connection had announced
C35_CloseRemovesFromEveryRoom ==
    [][\A d \in Devices :
        (ws[d] = "open" /\ ws'[d] # "open" /\ connDeviceId[d] # NoRoom)
        => \A r \in DOMAIN rooms' :
              FindByDevice(rooms'[r].players, connDeviceId[d]) = NullId]_vars


\* C36: a client whose socket is open is subscribed to the room it watches:
\* its connection is scoped to the room on the server, or the join-room for
\* it is on its way
C36_ReconnectResubscribes ==
    \A d \in Devices :
        ws[d] = "open"
        => \/ currentRoomId[d] = ClientRoom
           \/ \E i \in 1..Len(toServer[d]) :
                /\ toServer[d][i].type = "join-room"
                /\ toServer[d][i].roomId = ClientRoom


\* C37: at most one of the sockets the client singleton has created is open
C37_OneLiveSocket ==
    Cardinality({i \in 1..Len(sockets) : sockets[i] = "open"}) <= 1


NoRepeat(words) == \A i, j \in 1..Len(words) : i # j => words[i] # words[j]

\* C38: no word occurs twice in roundWords, in the room on the server and in
\* the copy of every client
C38_RoundWordsDistinct ==
    /\ \A r \in DOMAIN rooms : NoRepeat(rooms[r].roundWords)
    /\ \A d \in Devices : NoRepeat(view[d].roundWords)


\* C39: the room kept in localStorage has a game master whenever it has a
\* player
C39_StoreHasGameMaster ==
    stored # <<>> /\ stored[1].gameMasterId = NullId
        => stored[1].players = <<>>


\* C40: the memory cache never holds more than MAX_CACHE_SIZE entries, and
\* the entry getCachedLyrics returned was younger than the TTL when it was
\* returned
C40_CacheBoundedAndFresh ==
    /\ Len(lyricsCache) <= MAX_CACHE_SIZE
    /\ returned # <<>> => returned[1].at - returned[1].timestamp < CACHE_TTL

====
